---- MODULE Spec2Model ----
(***************************************************************************)
(* Model of weaver/utils/nn/tools.py: the label/prediction flattening      *)
(* helpers and the train_* / evaluate_* batch loops.                       *)
(*                                                                         *)
(* A tensor is a record [shape, data]: data is the row-major (contiguous)  *)
(* layout of the elements.  Python's None is the record NoneT.             *)
(***************************************************************************)
EXTENDS Integers, Sequences, FiniteSets, TLC

\* ------------------------------------------------------------------ bounds
\* largest size of one tensor axis
MaxDim == 2
\* largest number of elements of a label tensor
MaxNumel == 4
\* largest number of classes (width of the class axis)
MaxClasses == 2

\* --------------------------------------------------------- tensor algebra
NoneT == [shape |-> <<>>, data |-> <<>>]

\* the outcome "the call raised" (IndexError of a boolean index of wrong length)
RaisedT == [shape |-> <<-1>>, data |-> <<>>]

RECURSIVE Prod(_)
Prod(s) == IF s = <<>> THEN 1 ELSE Head(s) * Prod(Tail(s))

\* multi-index (0-based) of the 0-based flat offset k in a contiguous tensor
RECURSIVE Unravel(_, _)
Unravel(k, shape) ==
    IF shape = <<>> THEN <<>>
    ELSE LET p == Prod(Tail(shape))
         IN  <<k \div p>> \o Unravel(k % p, Tail(shape))

\* 0-based flat offset of a multi-index
RECURSIVE Ravel(_, _)
Ravel(idx, shape) ==
    IF shape = <<>> THEN 0
    ELSE Head(idx) * Prod(Tail(shape)) + Ravel(Tail(idx), Tail(shape))

Swap(s, a, b) ==
    [i \in 1..Len(s) |-> IF i = a THEN s[b] ELSE IF i = b THEN s[a] ELSE s[i]]

\* t.transpose(a, b).contiguous(), axes 1-based
transpose(t, a, b) ==
    LET ns == Swap(t.shape, a, b)
    IN  [shape |-> ns,
         data  |-> [k \in 1..Len(t.data) |->
                      t.data[Ravel(Swap(Unravel(k - 1, ns), a, b), t.shape) + 1]]]

\* t.view(-1)
view_flat(t) == [shape |-> <<Len(t.data)>>, data |-> t.data]

\* t.view((-1, w))
view_rows(t, w) == [shape |-> <<Len(t.data) \div w, w>>, data |-> t.data]

RECURSIVE SelectIdx(_, _)
SelectIdx(m, i) ==
    IF i > Len(m) THEN <<>>
    ELSE (IF m[i] THEN <<i>> ELSE <<>>) \o SelectIdx(m, i + 1)

\* t[m] for a rank-1 boolean m: the slices along axis 0 whose m is true
bool_index(t, m) ==
    LET w    == Prod(Tail(t.shape))
        keep == SelectIdx(m, 1)
    IN  IF Len(m) # Head(t.shape) THEN RaisedT ELSE
        [shape |-> <<Len(keep)>> \o Tail(t.shape),
         data  |-> [k \in 1..(Len(keep) * w) |->
                      t.data[(keep[((k - 1) \div w) + 1] - 1) * w + ((k - 1) % w) + 1]]]

\* ------------------------------------------------------- _flatten_label
flatten_label_no_mask(label, mask) ==
    IF Len(label.shape) > 1 THEN view_flat(label) ELSE label

flatten_label(label, mask) ==
    IF Len(label.shape) > 1
    THEN LET l1 == view_flat(label)
         IN  IF mask # NoneT THEN bool_index(l1, view_flat(mask).data) ELSE l1
    ELSE label

\* ------------------------------------------------------- _flatten_preds
flatten_preds_no_transpose(preds, mask, label_axis) ==
    IF Len(preds.shape) > 2
    THEN LET p2 == view_rows(preds, preds.shape[label_axis])
         IN  IF mask # NoneT THEN bool_index(p2, view_flat(mask).data) ELSE p2
    ELSE preds

flatten_preds(preds, mask, label_axis) ==
    IF Len(preds.shape) > 2
    THEN LET p1 == transpose(preds, label_axis, Len(preds.shape))
             p2 == view_rows(p1, p1.shape[Len(p1.shape)])
         IN  IF mask # NoneT THEN bool_index(p2, view_flat(mask).data) ELSE p2
    ELSE preds

\* ------------------------------------------- inputs of the flatten checks
Dims == 1..MaxDim

LabelShapes ==
    {s \in {<<a>> : a \in Dims} \cup {<<a, b>> : a, b \in Dims}
           \cup {<<a, b, c>> : a, b, c \in Dims} : Prod(s) <= MaxNumel}

\* a label whose element is its own coordinate
CoordTensor(shape) ==
    [shape |-> shape, data |-> [k \in 1..Prod(shape) |-> Unravel(k - 1, shape)]]

MasksOf(shape) ==
    {[shape |-> shape, data |-> d] : d \in [1..Prod(shape) -> BOOLEAN]}

\* a raw output for a label of this shape: the class axis of width c inserted
\* at axis 1; element (b, k, rest) carries the label coordinate (b, rest) and k
PredTensor(lshape, c) ==
    LET ps == <<Head(lshape), c>> \o Tail(lshape)
    IN  [shape |-> ps,
         data  |-> [k \in 1..Prod(ps) |->
                      LET ix == Unravel(k - 1, ps)
                      IN  [coord |-> <<ix[1]>> \o SubSeq(ix, 3, Len(ix)),
                           cls   |-> ix[2]]]]

\* a raw output of exactly the label's shape (no class axis)
SameShapePred(lshape) ==
    [shape |-> lshape,
     data  |-> [k \in 1..Prod(lshape) |->
                  [coord |-> Unravel(k - 1, lshape), cls |-> 0]]]

PopCount(mask) == Len(SelectIdx(mask.data, 1))

VARIABLES
    f_label,      \* argument label of _flatten_label
    f_mask,       \* argument mask of both helpers
    f_preds,      \* argument preds of _flatten_preds
    f_kind,       \* "class_axis" | "same_shape": how f_preds was built
    f_out_label,  \* result of _flatten_label, NoneT before the call
    f_out_preds   \* result of _flatten_preds, NoneT before the call

fvars == <<f_label, f_mask, f_preds, f_kind, f_out_label, f_out_preds>>

\* =====================================================================
\* The batch loops
\* =====================================================================
\* largest number of batches the batch source yields in one pass
MaxBatches == 2
\* largest per-batch loss value (losses are integers: a fixed-point scale)
MaxLoss == 2
\* largest configured steps_per_epoch
MaxSteps == 2

\* steps_per_epoch=None
NoSteps == -1

\* a quotient a / b of the code, kept exact as the pair <<a, b>>
Quot(a, b) == <<a, b>>
RatEq(q, r) == q[2] # 0 /\ r[2] # 0 /\ q[1] * r[2] = r[1] * q[2]
NoQuot == <<0, 0>>

VARIABLES
    fn,              \* the loop function being run
    for_training,    \* argument for_training of evaluate_*
    steps_per_epoch, \* argument steps_per_epoch, NoSteps for None
    has_loss_func,   \* loss_func is not None
    has_tb,          \* tb_helper is not None
    loader_len,      \* number of batches the batch source will yield
    num_classes,     \* len(data_config.label_value)
    num_targets,     \* len(data_config.target_names) = len(data_config.target_value)
    batch,           \* the values of the batch the source yields, NoneT when the
                     \* specification leaves them open
    caller_kept,     \* what the caller kept of an earlier pass, NoResult if none
    scheduler,       \* "none" | "per_step" | "per_epoch": the scheduler argument
                     \* and its _update_per_step flag
    has_scaler,      \* grad_scaler is not None
    has_custom_fn,   \* tb_helper.custom_fn is set
    fail_at,         \* index of the batch on which a call to the model or the
                     \* loss function raises, 0 if none does
    fail_in,         \* "model" | "loss": the call that raises on that batch
    pc,              \* "loop" | "epoch_end" | "returned" | "raised"
    err,             \* the exception that ended the pass, "" if none
    num_batches, count, entry_count,
    total_loss, total_correct, sum_abs_err, sum_sqr_err,
    total_cat_loss, total_reg_loss,
    scores,          \* list of per-batch score arrays (scores_cat in hybrid)
    scores_reg,      \* list of per-batch regression score arrays (hybrid)
    labels,          \* list of per-batch flattened primary-label arrays
    labels_counts,   \* list of per-batch per-entry valid counts
    postfix,         \* the last tq.set_postfix record, AvgLoss = NoQuot if none
    summary,         \* the epoch-end loss written to the log / the sink
    result,          \* the return value
    fetched,         \* number of batches taken from the batch source
    batch_train_count, \* tb_helper.batch_train_count
    tb_log,          \* the global_step of every per-batch write to the sink
    call_log,        \* this epoch's calls: "opt" (optimizer step), "sched"
                     \* (scheduler.step), "summary" (epoch summary)
    epoch,           \* number of training epochs started before this one
    trained,         \* number of batches the training epochs have counted
    trace,           \* the calls made to the collaborators, in order: records
                     \* [ev, i, arg, k] with i the index of the batch, AfterLoop
                     \* after the loop
    model_output,    \* shape of the model's last raw output, <<>> for None
    hist             \* history: one record per batch whose body ran to its end

\* the arguments of the call and the dataset configuration: read-only
cfgvars == <<fn, for_training, steps_per_epoch, has_loss_func, has_tb, loader_len,
             num_classes, num_targets, batch, caller_kept, scheduler,
             has_scaler, has_custom_fn, fail_at, fail_in>>

\* the accumulators only the hybrid loops use
hybvars == <<total_cat_loss, total_reg_loss, scores_reg>>

\* the dashboard helper, the calls of the epoch, and the epochs so far
tbstate == <<batch_train_count, tb_log, call_log, epoch, trained>>
tbvars == <<tbstate, trace>>

lvars == <<cfgvars, tbvars, pc, err, num_batches, count, entry_count, total_loss,
           total_correct, sum_abs_err, sum_sqr_err, hybvars, scores, labels,
           labels_counts, postfix, summary, result, fetched, model_output, hist>>

vars == <<fvars, lvars>>

NoPostfix == [AvgLoss |-> NoQuot, AvgAcc |-> NoQuot, AvgMSE |-> NoQuot, AvgMAE |-> NoQuot]
NoResult == [kind |-> "none"]

\* no gradient scaler, no custom callback, and no call that raises
PlainCall ==
    /\ has_scaler = FALSE /\ has_custom_fn = FALSE /\ fail_at = 0 /\ fail_in = "model"

\* the loop's local state right after the assignments that precede the loop
LoopStart ==
    /\ pc = "loop" /\ err = ""
    /\ num_batches = 0 /\ count = 0 /\ entry_count = 0
    /\ total_loss = 0 /\ total_correct = 0 /\ sum_abs_err = 0 /\ sum_sqr_err = 0
    /\ total_cat_loss = 0 /\ total_reg_loss = 0
    /\ scores = <<>> /\ scores_reg = <<>> /\ labels = <<>> /\ labels_counts = <<>>
    /\ postfix = NoPostfix /\ summary = NoQuot /\ result = NoResult
    /\ fetched = 0 /\ model_output = <<>> /\ hist = <<>>
    /\ batch_train_count = 0 /\ tb_log = <<>> /\ call_log = <<>>
    /\ epoch = 0 /\ trained = 0 /\ trace = <<>>

\* the flatten helpers are not under check in the loop specifications
FlattenIdle ==
    /\ f_label = NoneT /\ f_mask = NoneT /\ f_preds = NoneT
    /\ f_kind = "idle" /\ f_out_label = NoneT /\ f_out_preds = NoneT

\* no loop runs in the flatten specification
LoopIdle ==
    /\ fn = "idle" /\ for_training = TRUE /\ steps_per_epoch = NoSteps
    /\ has_loss_func = FALSE /\ has_tb = FALSE /\ loader_len = 0
    /\ num_classes = 0 /\ num_targets = 0 /\ batch = NoneT /\ caller_kept = NoResult /\ scheduler = "none" /\ PlainCall
    /\ pc = "idle" /\ err = ""
    /\ num_batches = 0 /\ count = 0 /\ entry_count = 0
    /\ total_loss = 0 /\ total_correct = 0 /\ sum_abs_err = 0 /\ sum_sqr_err = 0
    /\ total_cat_loss = 0 /\ total_reg_loss = 0
    /\ scores = <<>> /\ scores_reg = <<>> /\ labels = <<>> /\ labels_counts = <<>>
    /\ postfix = NoPostfix /\ summary = NoQuot /\ result = NoResult
    /\ fetched = 0 /\ model_output = <<>> /\ hist = <<>>
    /\ batch_train_count = 0 /\ tb_log = <<>> /\ call_log = <<>>
    /\ epoch = 0 /\ trained = 0 /\ trace = <<>>

\* `if steps_per_epoch is not None and num_batches >= steps_per_epoch: break`
budget_reached(nb, steps) == steps # NoSteps /\ nb >= steps

\* the for statement asks the batch source for a batch and gets StopIteration
LoaderExhausted ==
    /\ pc = "loop" /\ fetched = loader_len
    /\ pc' = "epoch_end"
    /\ UNCHANGED <<fvars, tbvars, cfgvars, err, num_batches, count, entry_count, total_loss,
                   total_correct, sum_abs_err, sum_sqr_err, scores, hybvars,
                   labels, labels_counts, postfix, summary, result, fetched, model_output, hist>>

RECURSIVE SumLC(_)
SumLC(h) == IF h = <<>> THEN 0 ELSE Head(h).l * Head(h).c + SumLC(Tail(h))
RECURSIVE SumL(_)
SumL(h) == IF h = <<>> THEN 0 ELSE Head(h).l + SumL(Tail(h))
RECURSIVE SumC(_)
SumC(h) == IF h = <<>> THEN 0 ELSE Head(h).c + SumC(Tail(h))

\* ------------------------------------------------ numpy / awkward helpers
\* mask.numpy().sum(axis=-1): the number of true entries along the last axis
mask_sum_last(mask) ==
    LET r    == Len(mask.shape)
        last == mask.shape[r]
        front == SubSeq(mask.shape, 1, r - 1)
    IN  [shape |-> front,
         data  |-> [k \in 1..Prod(front) |->
                      Cardinality({j \in 1..last : mask.data[(k - 1) * last + j]})]]

NotOne(d) == d # 1

\* np.squeeze: every axis of size 1 is dropped (a single entry gives a 0-d array)
squeeze(t) == [shape |-> SelectSeq(t.shape, NotOne), data |-> t.data]

RECURSIVE SumSeq(_)
SumSeq(q) == IF q = <<>> THEN 0 ELSE Head(q) + SumSeq(Tail(q))

RECURSIVE ConcatData(_)
ConcatData(list) == IF list = <<>> THEN <<>> ELSE Head(list).data \o ConcatData(Tail(list))

\* np.concatenate(list) along axis 0: raises ValueError on an empty list, on a
\* zero-dimensional array and on arrays whose trailing shapes differ
np_concatenate(list) ==
    IF \/ list = <<>>
       \/ \E i \in 1..Len(list) : list[i].shape = <<>>
       \/ \E i \in 1..Len(list) : Tail(list[i].shape) # Tail(list[1].shape)
    THEN RaisedT
    ELSE [shape |-> <<SumSeq([i \in 1..Len(list) |-> Head(list[i].shape)])>>
                      \o Tail(list[1].shape),
          data  |-> ConcatData(list)]

\* ak.unflatten(array, counts): one sub-array per count, cut off the front in
\* order; a list of arrays.  Raises ValueError when the counts do not add up
\* to the array's length (the result is then <<RaisedT>>).
RECURSIVE unflatten_from(_, _, _)
unflatten_from(t, cnts, off) ==
    IF cnts = <<>> THEN <<>>
    ELSE LET w == Prod(Tail(t.shape))
         IN  <<[shape |-> <<Head(cnts)>> \o Tail(t.shape),
                data  |-> SubSeq(t.data, off * w + 1, (off + Head(cnts)) * w)]>>
             \o unflatten_from(t, Tail(cnts), off + Head(cnts))

ak_unflatten(t, counts) ==
    IF SumSeq(counts.data) # Head(t.shape) THEN <<RaisedT>>
    ELSE unflatten_from(t, counts.data, 0)

\* ak.flatten of a list of arrays (used to state the round trip)
ak_flatten(j) == ConcatData(j)

\* ------------------------------------------------ classification batches
\* a batch of the classification loops: the primary label's shape and the
\* optional '<label>_mask' entry of y (NoneT when the key is missing)
PlainStructs == {[shape |-> <<b>>, mask |-> NoneT] : b \in Dims}

Losses(given) == IF given THEN 0..MaxLoss ELSE {0}

\* the number of correct predictions of a batch of n examples: none or all
Corrects(n) == {0, n}

\* the model's raw output for the batch: class axis at axis 1, num_classes wide
model_output_of(b) == PredTensor(b.shape, num_classes)

\* the per-batch score array: the rows of logits, tagged with the batch number
tag_rows(t, idx) ==
    [shape |-> t.shape,
     data  |-> [k \in 1..Len(t.data) |->
                  [b |-> idx, coord |-> t.data[k].coord, cls |-> t.data[k].cls]]]

tag_elems(t, idx) ==
    [shape |-> t.shape,
     data  |-> [k \in 1..Len(t.data) |-> [b |-> idx, coord |-> t.data[k]]]]

\* torch.softmax(logits, dim=1): every element becomes the softmax of its row
\* at its column (for integer logits never the element itself: it lies strictly
\* between 0 and 1)
softmax(t) ==
    [shape |-> t.shape, data |-> [k \in 1..Len(t.data) |-> [softmax_of |-> t.data[k]]]]

\* `total_loss += loss` (train) and `total_loss += loss * num_examples` (evaluate)
train_total_loss(total, loss, n) == total + loss
eval_total_loss_unweighted(total, loss, n) == total + loss
eval_total_loss(total, loss, n) == total + loss * n

Break(nb) == IF budget_reached(nb, steps_per_epoch) THEN "epoch_end" ELSE "loop"

\* the variant of tb_step that restarts the step in every epoch
tb_step_local(btc, nb) == nb

\* the global_step of the per-batch scalars:
\* `tb_helper.batch_train_count + num_batches`
tb_step(btc, nb) == btc + nb

\* `if scheduler and getattr(scheduler, '_update_per_step', False)`
sched_per_batch(s) == s = "per_step"

\* the variant of sched_per_epoch that ignores the per-step flag
sched_any(s) == s # "none"

\* `if scheduler and not getattr(scheduler, '_update_per_step', False)`
sched_per_epoch(s) == s = "per_epoch"

\* the batch index of the calls made after the loop, and the i_batch of the
\* callback's last call
AfterLoop == -1

\* a call to a collaborator while batch i of the source is processed
Ev(e, i) == [ev |-> e, i |-> i, arg |-> "", k |-> 0]
EvArg(e, i, a, k) == [ev |-> e, i |-> i, arg |-> a, k |-> k]

\* the model call or the loss call raises on batch i
call_raises(i) == fail_at = i

\* the variant of update_path that also steps the optimizer directly
update_path_both(i) ==
    IF has_scaler
    THEN <<Ev("scale", i), Ev("backward", i), Ev("scaler_step", i),
           Ev("scaler_update", i), Ev("opt_step", i)>>
    ELSE <<Ev("backward", i), Ev("opt_step", i)>>

\* `if grad_scaler is None: loss.backward(); opt.step()` and its else branch
update_path(i) ==
    IF has_scaler
    THEN <<Ev("scale", i), Ev("backward", i), Ev("scaler_step", i),
           Ev("scaler_update", i)>>
    ELSE <<Ev("backward", i), Ev("opt_step", i)>>

\* a training iteration from model.zero_grad to the per-step scheduler.step
train_calls(i) ==
    <<Ev("zero_grad", i), Ev("forward", i), Ev("loss", i)>> \o update_path(i)
    \o (IF sched_per_batch(scheduler) THEN <<Ev("sched", i)>> ELSE <<>>)

\* `if tb_helper.custom_fn: tb_helper.custom_fn(..., i_batch=k, mode=mode)`,
\* reached only inside `if tb_helper:`
custom_call(i, k, mode) ==
    IF has_tb /\ has_custom_fn THEN <<EvArg("custom_fn", i, mode, k)>> ELSE <<>>

\* the counters, tq.set_postfix, the per-batch scalars and the callback of
\* a training iteration; nb is num_batches after the increment
train_report(i, nb) ==
    <<Ev("accumulate", i), Ev("report", i)>>
    \o (IF has_tb THEN <<Ev("tb_write", i)>> ELSE <<>>)
    \o custom_call(i, nb, "train")

\* `tb_mode = 'eval' if for_training else 'test'`
tb_mode == IF for_training THEN "eval" ELSE "test"

\* the variant of eval_calls that runs the training update as well
eval_calls_update(i) ==
    <<Ev("zero_grad", i), Ev("forward", i)>>
    \o (IF has_loss_func THEN <<Ev("loss", i)>> \o update_path(i) ELSE <<>>)

\* an evaluation iteration from the model call to the loss call
\* (`loss = 0 if loss_func is None else loss_func(...)`)
eval_calls(i) ==
    <<Ev("forward", i)>> \o (IF has_loss_func THEN <<Ev("loss", i)>> ELSE <<>>)

\* the counters, tq.set_postfix and the callback of an evaluation iteration
eval_report(i, nb) ==
    <<Ev("accumulate", i), Ev("report", i)>> \o custom_call(i, nb, tb_mode)

\* the epoch scalars and the last call of the callback after an evaluation loop
eval_close ==
    (IF has_tb THEN <<Ev("tb_epoch", AfterLoop)>> ELSE <<>>)
    \o custom_call(AfterLoop, -1, tb_mode)

\* `evaluate_metrics(labels[...], scores, ...)` on the classification slice
metric_cat == <<EvArg("metric", AfterLoop, "cat", 0)>>

\* `for idx, (name, element) in enumerate(targets.items()): evaluate_metrics(...)`
metric_reg == [k \in 1..num_targets |-> EvArg("metric", AfterLoop, "reg", k)]

\* the calls of one iteration before its counters: the optimizer step, then
\* the per-step scheduler.step
batch_calls ==
    call_log \o <<"opt">> \o (IF sched_per_batch(scheduler) THEN <<"sched">> ELSE <<>>)

\* `if tb_helper: tb_helper.write_scalars([...])` of one iteration
tb_write_batch(nb) ==
    IF has_tb THEN Append(tb_log, tb_step(batch_train_count, nb)) ELSE tb_log

\* the end of a training epoch: the summary lines, the update of
\* tb_helper.batch_train_count, then the per-epoch scheduler.step
TrainEpochClose ==
    /\ batch_train_count' = IF has_tb THEN batch_train_count + num_batches
                            ELSE batch_train_count
    /\ call_log' = call_log \o <<"summary">>
                    \o (IF sched_per_epoch(scheduler) THEN <<"sched">> ELSE <<>>)
    /\ trace' = trace \o <<Ev("summary", AfterLoop)>>
                 \o (IF has_tb THEN <<Ev("tb_epoch", AfterLoop)>> ELSE <<>>)
                 \o custom_call(AfterLoop, -1, "train")
                 \o (IF sched_per_epoch(scheduler) THEN <<Ev("sched", AfterLoop)>>
                     ELSE <<>>)
    /\ UNCHANGED <<tb_log, epoch, trained>>

\* one iteration of the loop of train_classification
TrainClassificationBatch(b, loss_in, correct_in) ==
    LET label        == flatten_label(CoordTensor(b.shape), b.mask)
        num_examples == Head(label.shape)
        logits       == flatten_preds(model_output_of(b), b.mask, 2)
        nb           == num_batches + 1
        cnt          == count + num_examples
        tl           == train_total_loss(total_loss, loss_in, num_examples)
        tc           == total_correct + correct_in
    IN  /\ pc = "loop" /\ fn = "train_classification" /\ fetched < loader_len
        /\ ~call_raises(fetched + 1)
        /\ correct_in <= num_examples
        /\ fetched' = fetched + 1
        /\ model_output' = model_output_of(b).shape
        /\ num_batches' = nb /\ count' = cnt /\ total_loss' = tl /\ total_correct' = tc
        /\ call_log' = batch_calls /\ trained' = trained + 1
        /\ IF num_examples = 0
           THEN /\ pc' = "raised" /\ err' = "ZeroDivisionError"
                /\ trace' = trace \o train_calls(fetched + 1)
                             \o <<Ev("accumulate", fetched + 1)>>
                /\ UNCHANGED <<postfix, hist, tb_log>>
           ELSE /\ postfix' = [NoPostfix EXCEPT !.AvgLoss = Quot(tl, nb),
                                               !.AvgAcc = Quot(tc, cnt)]
                /\ tb_log' = tb_write_batch(nb)
                /\ trace' = trace \o train_calls(fetched + 1)
                             \o train_report(fetched + 1, nb)
                /\ hist' = Append(hist, [c |-> num_examples, l |-> loss_in])
                /\ pc' = Break(nb)
                /\ UNCHANGED err
        /\ UNCHANGED <<fvars, batch_train_count, epoch, cfgvars, entry_count,
                       sum_abs_err, sum_sqr_err, scores,
                       hybvars, labels, labels_counts, summary, result>>

\* one iteration of the loop of evaluate_classification
EvaluateClassificationBatch(b, loss_in, correct_in) ==
    LET label0       == CoordTensor(b.shape)
        label        == flatten_label(label0, b.mask)
        num_examples == Head(label.shape)
        logits       == flatten_preds(model_output_of(b), b.mask, 2)
        nb           == num_batches + 1
        cnt          == count + num_examples
        tl           == eval_total_loss(total_loss, loss_in, num_examples)
        tc           == total_correct + correct_in
    IN  /\ pc = "loop" /\ fn = "evaluate_classification" /\ fetched < loader_len
        /\ ~call_raises(fetched + 1)
        /\ correct_in <= num_examples
        /\ fetched' = fetched + 1
        /\ model_output' = model_output_of(b).shape
        /\ entry_count' = entry_count + Head(label0.shape)
        /\ labels_counts' = IF ~for_training /\ b.mask # NoneT
                            THEN Append(labels_counts, squeeze(mask_sum_last(b.mask)))
                            ELSE labels_counts
        /\ scores' = Append(scores, softmax(tag_rows(logits, nb)))
        /\ labels' = Append(labels, tag_elems(label, nb))
        /\ num_batches' = nb /\ count' = cnt /\ total_loss' = tl /\ total_correct' = tc
        /\ IF num_examples = 0
           THEN /\ pc' = "raised" /\ err' = "ZeroDivisionError"
                /\ trace' = trace \o eval_calls(fetched + 1)
                             \o <<Ev("accumulate", fetched + 1)>>
                /\ UNCHANGED <<postfix, hist>>
           ELSE /\ postfix' = [NoPostfix EXCEPT !.AvgLoss = Quot(tl, cnt),
                                               !.AvgAcc = Quot(tc, cnt)]
                /\ hist' = Append(hist, [c |-> num_examples, l |-> loss_in])
                /\ trace' = trace \o eval_calls(fetched + 1)
                             \o eval_report(fetched + 1, nb)
                /\ pc' = Break(nb)
                /\ UNCHANGED err
        /\ UNCHANGED <<fvars, tbstate, cfgvars, sum_abs_err, sum_sqr_err, hybvars, summary, result>>

\* the code of train_classification after the loop
TrainClassificationEnd ==
    /\ pc = "epoch_end" /\ fn = "train_classification"
    /\ IF num_batches = 0 \/ count = 0
       THEN /\ pc' = "raised" /\ err' = "ZeroDivisionError"
            /\ UNCHANGED <<summary, result, tbvars>>
       ELSE /\ summary' = Quot(total_loss, num_batches)
            /\ result' = [kind |-> "None"]
            /\ pc' = "returned"
            /\ TrainEpochClose
            /\ UNCHANGED err
    /\ UNCHANGED <<fvars, cfgvars, num_batches, count, entry_count, total_loss,
                   total_correct, sum_abs_err, sum_sqr_err, scores, hybvars,
                   labels, labels_counts, postfix, fetched, model_output, hist>>

\* the regrouping at the end of evaluate_classification(for_training=False)
\* (`# convert 2D labels/scores`): [how, scores, labels], how = "raised" with the
\* exception in err when a step of it raises
regroup(sc, lb) ==
    IF Head(sc.shape) = entry_count
    THEN [how |-> "none", err |-> "", scores |-> <<sc>>, labels |-> <<lb>>]
    ELSE IF Len(labels_counts) # 0
    THEN LET cnts == np_concatenate(labels_counts)
         IN  IF cnts = RaisedT \/ ak_unflatten(sc, cnts) = <<RaisedT>>
             THEN [how |-> "raised", err |-> "ValueError", scores |-> <<>>, labels |-> <<>>]
             ELSE [how |-> "jagged", err |-> "",
                   scores |-> ak_unflatten(sc, cnts), labels |-> ak_unflatten(lb, cnts)]
    ELSE IF count % entry_count # 0
    THEN [how |-> "raised", err |-> "AssertionError", scores |-> <<>>, labels |-> <<>>]
    \* ndarray.transpose((1, 2)) of the 3-d reshaped array: the axes do not
    \* match the array
    ELSE [how |-> "raised", err |-> "ValueError", scores |-> <<>>, labels |-> <<>>]

\* the code of evaluate_classification after the loop
EvaluateClassificationEnd ==
    LET sc == np_concatenate(scores)
        lb == np_concatenate(labels)
        rg == regroup(sc, lb)
    IN  /\ pc = "epoch_end" /\ fn = "evaluate_classification"
        /\ IF has_tb /\ count = 0
           THEN /\ pc' = "raised" /\ err' = "ZeroDivisionError"
                /\ UNCHANGED <<summary, result, trace>>
           ELSE /\ summary' = IF has_tb THEN Quot(total_loss, count) ELSE summary
                /\ trace' = trace \o eval_close
                             \o (IF sc = RaisedT \/ lb = RaisedT THEN <<>> ELSE metric_cat)
                /\ IF sc = RaisedT \/ lb = RaisedT
                   THEN /\ pc' = "raised" /\ err' = "ValueError"
                        /\ UNCHANGED result
                   ELSE IF for_training
                   THEN /\ result' = [kind |-> "scalar", value |-> Quot(total_correct, count)]
                        /\ pc' = "returned"
                        /\ UNCHANGED err
                   ELSE IF rg.how = "raised"
                   THEN /\ pc' = "raised" /\ err' = rg.err
                        /\ UNCHANGED result
                   ELSE /\ result' = [kind |-> "tuple", value |-> Quot(total_correct, count),
                                      how |-> rg.how, scores |-> rg.scores,
                                      labels |-> rg.labels]
                        /\ pc' = "returned"
                        /\ UNCHANGED err
        /\ UNCHANGED <<fvars, tbstate, cfgvars, num_batches, count, entry_count, total_loss,
                       total_correct, sum_abs_err, sum_sqr_err, scores, hybvars,
                       labels, labels_counts, postfix, fetched, model_output, hist>>

StepChoices == {NoSteps} \cup 0..MaxSteps

InitCls ==
    /\ FlattenIdle
    /\ fn \in {"train_classification", "evaluate_classification"}
    /\ for_training \in (IF fn = "train_classification" THEN {TRUE} ELSE BOOLEAN)
    /\ has_loss_func \in (IF fn = "train_classification" THEN {TRUE} ELSE BOOLEAN)
    /\ has_tb \in BOOLEAN
    /\ steps_per_epoch \in StepChoices
    /\ loader_len \in 0..MaxBatches
    /\ num_classes = MaxClasses /\ num_targets = 0 /\ batch = NoneT /\ caller_kept = NoResult /\ scheduler = "none" /\ PlainCall
    /\ LoopStart

NextCls ==
    \/ \E b \in PlainStructs : \E l \in Losses(TRUE) : \E k \in Corrects(Prod(b.shape)) :
         TrainClassificationBatch(b, l, k)
    \/ \E b \in PlainStructs : \E l \in Losses(has_loss_func) : \E k \in Corrects(Prod(b.shape)) :
         EvaluateClassificationBatch(b, l, k)
    \/ LoaderExhausted
    \/ TrainClassificationEnd
    \/ EvaluateClassificationEnd

SpecCls == InitCls /\ [][NextCls]_vars

\* ------------------------------------------------------ regression loops
\* largest number of regression targets
MaxTargets == 2
\* largest absolute residual of one example (residuals are integers)
MaxResidual == 2

\* the residual of every element of preds - target in one batch: `e`
Residuals == {0, MaxResidual}

\* e.abs().sum() and e.square().sum() over n examples and t target columns
abs_sum(r, n, t) == r * n * t
sqr_sum(r, n, t) == r * r * n * t

\* one iteration of the loop of train_regression; n is target.shape[0]
TrainRegressionBatch(n, loss_in, r) ==
    LET nb      == num_batches + 1
        cnt     == count + n
        tl      == train_total_loss(total_loss, loss_in, n)
        abs_err == abs_sum(r, n, num_targets)
        sqr_err == sqr_sum(r, n, num_targets)
    IN  /\ pc = "loop" /\ fn = "train_regression" /\ fetched < loader_len
        /\ ~call_raises(fetched + 1)
        /\ fetched' = fetched + 1
        /\ model_output' = <<n, num_targets>>
        /\ num_batches' = nb /\ count' = cnt /\ total_loss' = tl
        /\ sum_abs_err' = sum_abs_err + abs_err
        /\ sum_sqr_err' = sum_sqr_err + sqr_err
        /\ call_log' = batch_calls /\ trained' = trained + 1
        /\ IF n = 0
           THEN /\ pc' = "raised" /\ err' = "ZeroDivisionError"
                /\ trace' = trace \o train_calls(fetched + 1)
                             \o <<Ev("accumulate", fetched + 1)>>
                /\ UNCHANGED <<postfix, hist, tb_log>>
           ELSE /\ postfix' = [NoPostfix EXCEPT !.AvgLoss = Quot(tl, nb),
                                               !.AvgMSE = Quot(sum_sqr_err + sqr_err, cnt),
                                               !.AvgMAE = Quot(sum_abs_err + abs_err, cnt)]
                /\ tb_log' = tb_write_batch(nb)
                /\ trace' = trace \o train_calls(fetched + 1)
                             \o train_report(fetched + 1, nb)
                /\ hist' = Append(hist, [c |-> n, l |-> loss_in])
                /\ pc' = Break(nb)
                /\ UNCHANGED err
        /\ UNCHANGED <<fvars, batch_train_count, epoch, cfgvars, entry_count,
                       total_correct, hybvars, scores,
                       labels, labels_counts, summary, result>>

\* the code of train_regression after the loop
TrainRegressionEnd ==
    /\ pc = "epoch_end" /\ fn = "train_regression"
    /\ IF num_batches = 0 \/ count = 0
       THEN /\ pc' = "raised" /\ err' = "ZeroDivisionError"
            /\ UNCHANGED <<summary, result, tbvars>>
       ELSE /\ summary' = Quot(total_loss, num_batches)
            /\ result' = [kind |-> "None"]
            /\ pc' = "returned"
            /\ TrainEpochClose
            /\ UNCHANGED err
    /\ UNCHANGED <<fvars, cfgvars, num_batches, count, entry_count, total_loss,
                   total_correct, sum_abs_err, sum_sqr_err, hybvars, scores,
                   labels, labels_counts, postfix, fetched, model_output, hist>>

\* one iteration of the loop of evaluate_regression: after the targets are
\* stacked, `target.to(devmnon_blocking=True)` passes a keyword Tensor.to does
\* not have and raises TypeError; no statement after it runs
EvaluateRegressionBatch(n) ==
    /\ pc = "loop" /\ fn = "evaluate_regression" /\ fetched < loader_len
    /\ fetched' = fetched + 1
    /\ pc' = "raised" /\ err' = "TypeError"
    /\ UNCHANGED <<fvars, tbvars, cfgvars, num_batches, count, entry_count, total_loss,
                   total_correct, sum_abs_err, sum_sqr_err, hybvars, scores,
                   labels, labels_counts, postfix, summary, result, model_output, hist>>

\* the code of evaluate_regression after the loop
EvaluateRegressionEnd ==
    LET sc == np_concatenate(scores)
    IN  /\ pc = "epoch_end" /\ fn = "evaluate_regression"
        /\ IF has_tb /\ count = 0
           THEN /\ pc' = "raised" /\ err' = "ZeroDivisionError"
                /\ UNCHANGED <<summary, result, trace>>
           ELSE /\ summary' = IF has_tb THEN Quot(total_loss, count) ELSE summary
                /\ trace' = trace \o eval_close
                /\ IF sc = RaisedT
                   THEN /\ pc' = "raised" /\ err' = "ValueError"
                        /\ UNCHANGED result
                   \* `eval_metrics=eval_reg_metrics`: the name is not defined
                   ELSE /\ pc' = "raised" /\ err' = "NameError"
                        /\ UNCHANGED result
        /\ UNCHANGED <<fvars, tbstate, cfgvars, num_batches, count, entry_count, total_loss,
                       total_correct, sum_abs_err, sum_sqr_err, hybvars, scores,
                       labels, labels_counts, postfix, fetched, model_output, hist>>

InitReg ==
    /\ FlattenIdle
    /\ fn \in {"train_regression", "evaluate_regression"}
    /\ for_training \in (IF fn = "train_regression" THEN {TRUE} ELSE BOOLEAN)
    /\ has_loss_func \in (IF fn = "train_regression" THEN {TRUE} ELSE BOOLEAN)
    /\ has_tb \in BOOLEAN
    /\ steps_per_epoch \in StepChoices
    /\ loader_len \in 0..MaxBatches
    /\ num_classes = 0 /\ num_targets \in 1..MaxTargets /\ batch = NoneT /\ caller_kept = NoResult /\ scheduler = "none" /\ PlainCall
    /\ LoopStart

NextReg ==
    \/ \E n \in Dims : \E l \in Losses(TRUE) : \E r \in Residuals :
         TrainRegressionBatch(n, l, r)
    \/ \E n \in Dims : EvaluateRegressionBatch(n)
    \/ LoaderExhausted
    \/ TrainRegressionEnd
    \/ EvaluateRegressionEnd

SpecReg == InitReg /\ [][NextReg]_vars

\* ---------------------------------------------------------- hybrid loops
\* largest number of batches of a pass of the hybrid specification
MaxHybridBatches == 2

Min(a, b) == IF a < b THEN a ELSE b

\* shape of t[:, lo:hi] for a rank-2 shape
slice_cols(shape, lo, hi) ==
    <<shape[1], Min(hi, shape[2]) - Min(lo, shape[2])>>

\* shape after .squeeze()
squeeze_shape(shape) == SelectSeq(shape, NotOne)

\* what loss_func(model_output, loss_target) returns: (total, classification
\* component, regression component)
HybridLosses == {<<0, 0, 0>>} \cup {<<l, 1, l - 1>> : l \in 1..MaxLoss}

\* the raw output of the model: a (R, width) matrix, or the degenerate rank-1
\* vector
OutShapes(width) == {<<width>>} \cup {<<r, width>> : r \in Dims}

\* the variant of score_array that keeps a single row
score_array_one_row(shape, idx, z) ==
    [shape |-> <<1>> \o Tail(shape),
     data  |-> [k \in 1..Prod(Tail(shape)) |-> [b |-> idx, zero |-> z]]]

\* a per-batch array of the hybrid score lists
score_array(shape, idx, z) ==
    [shape |-> shape,
     data  |-> [k \in 1..Prod(shape) |-> [b |-> idx, zero |-> z]]]

cat_block(out) == squeeze_shape(slice_cols(out, 0, num_classes))
reg_block(out) == squeeze_shape(slice_cols(out, num_classes, num_classes + num_targets))

\* one iteration of the loop of train_hybrid: n is num_examples, out the shape
\* of model_output, ls the loss triple, k the number of matches of pred_cat
\* with label, abs_err and sqr_err the sums over residual_reg
TrainHybridStep(n, out, ls, k, abs_err, sqr_err) ==
    LET nb      == num_batches + 1
        cnt     == count + n
        tl      == train_total_loss(total_loss, ls[1], n)
        cat     == cat_block(out)
        rows    == cat[1]
    IN  /\ pc = "loop" /\ fn = "train_hybrid" /\ fetched < loader_len
        /\ ~call_raises(fetched + 1)
        /\ fetched' = fetched + 1
        /\ model_output' = out
        /\ total_loss' = tl
        /\ total_cat_loss' = total_cat_loss + ls[2]
        /\ total_reg_loss' = total_reg_loss + ls[3]
        /\ num_batches' = nb /\ count' = cnt
        /\ call_log' = batch_calls /\ trained' = trained + 1
        /\ IF Len(out) = 1
           \* `if(model_output.dim() == 1) : continue;`
           THEN /\ hist' = Append(hist, [c |-> n, l |-> ls[1], ok |-> FALSE])
                /\ UNCHANGED <<pc, err, total_correct, sum_abs_err, sum_sqr_err, postfix,
                              tb_log>>
                /\ trace' = trace \o train_calls(fetched + 1)
                             \o <<Ev("accumulate", fetched + 1)>>
           ELSE IF Len(cat) < 2
           \* `.squeeze().max(1)` of a vector or a scalar
           THEN /\ pc' = "raised" /\ err' = "IndexError"
                /\ UNCHANGED <<total_correct, sum_abs_err, sum_sqr_err, postfix, hist,
                              tb_log>>
                /\ trace' = trace \o train_calls(fetched + 1)
                             \o <<Ev("accumulate", fetched + 1)>>
           ELSE IF ~(n = 1 \/ rows = n)
           \* `pred_cat == label` of vectors of different lengths
           THEN /\ pc' = "raised" /\ err' = "RuntimeError"
                /\ UNCHANGED <<total_correct, sum_abs_err, sum_sqr_err, postfix, hist,
                              tb_log>>
                /\ trace' = trace \o train_calls(fetched + 1)
                             \o <<Ev("accumulate", fetched + 1)>>
           ELSE IF n = 0
           \* `correct / num_examples` in the arguments of tq.set_postfix
           THEN /\ k = 0
                /\ total_correct' = total_correct + k
                /\ sum_abs_err' = sum_abs_err + abs_err
                /\ sum_sqr_err' = sum_sqr_err + sqr_err
                /\ pc' = "raised" /\ err' = "ZeroDivisionError"
                /\ trace' = trace \o train_calls(fetched + 1)
                             \o <<Ev("accumulate", fetched + 1)>>
                /\ UNCHANGED <<postfix, hist, tb_log>>
           ELSE /\ k <= rows
                /\ total_correct' = total_correct + k
                /\ sum_abs_err' = sum_abs_err + abs_err
                /\ sum_sqr_err' = sum_sqr_err + sqr_err
                /\ postfix' = [AvgLoss |-> Quot(tl, nb),
                               AvgAcc  |-> Quot(total_correct + k, cnt),
                               AvgMSE  |-> Quot(sum_sqr_err + sqr_err, cnt),
                               AvgMAE  |-> Quot(sum_abs_err + abs_err, cnt)]
                /\ tb_log' = tb_write_batch(nb)
                /\ trace' = trace \o train_calls(fetched + 1)
                             \o train_report(fetched + 1, nb)
                /\ hist' = Append(hist, [c |-> n, l |-> ls[1], ok |-> TRUE])
                /\ pc' = Break(nb)
                /\ UNCHANGED err
        /\ UNCHANGED <<fvars, batch_train_count, epoch, cfgvars, entry_count, scores,
                       scores_reg, labels,
                       labels_counts, summary, result>>

\* the same iteration with every element of residual_reg equal to r
TrainHybridBatch(n, out, ls, k, r) ==
    LET rows == IF Len(out) = 2 /\ Len(cat_block(out)) >= 1 THEN cat_block(out)[1] ELSE 0
    IN  TrainHybridStep(n, out, ls, k, abs_sum(r, rows, num_targets),
                        sqr_sum(r, rows, num_targets))

\* the code of train_hybrid after the loop
TrainHybridEnd ==
    /\ pc = "epoch_end" /\ fn = "train_hybrid"
    /\ IF num_batches = 0 \/ count = 0
       THEN /\ pc' = "raised" /\ err' = "ZeroDivisionError"
            /\ UNCHANGED <<summary, result, tbvars>>
       ELSE /\ summary' = Quot(total_loss, num_batches)
            /\ result' = [kind |-> "None"]
            /\ pc' = "returned"
            /\ TrainEpochClose
            /\ UNCHANGED err
    /\ UNCHANGED <<fvars, cfgvars, num_batches, count, entry_count, total_loss,
                   total_correct, sum_abs_err, sum_sqr_err, hybvars, scores,
                   labels, labels_counts, postfix, fetched, model_output, hist>>

\* `total_loss += loss` of evaluate_hybrid
eval_hybrid_total_loss(total, loss, n) == total + loss

\* `pred_cat_output.shape[0] == num_examples and pred_reg.shape[0] == num_examples`:
\* "raise" when shape[0] of a 0-d block is read
blocks_match(cat, reg, n) ==
    IF cat = <<>> THEN "raise"
    ELSE IF cat[1] # n THEN "no"
    ELSE IF reg = <<>> THEN "raise"
    ELSE IF reg[1] = n THEN "yes" ELSE "no"

\* one iteration of the loop of evaluate_hybrid, with the arguments of
\* TrainHybridStep
EvaluateHybridStep(n, out, ls, k, abs_err, sqr_err) ==
    LET nb      == num_batches + 1
        cnt     == count + n
        tl      == eval_hybrid_total_loss(total_loss, ls[1], n)
        cat     == cat_block(out)
        reg     == reg_block(out)
        cond    == blocks_match(cat, reg, n)
        lab     == tag_elems(flatten_label(CoordTensor(<<n>>), NoneT), nb)
        zcat    == score_array(<<n, num_classes>>, nb, TRUE)
        zreg    == score_array(IF num_targets > 1 THEN <<n, num_targets>> ELSE <<n>>,
                               nb, TRUE)
        Raise(e, sc, sr) ==
            /\ pc' = "raised" /\ err' = e
            /\ scores' = sc /\ scores_reg' = sr
            /\ trace' = trace \o <<Ev("forward", fetched + 1)>>
            /\ UNCHANGED <<num_batches, count, total_loss, total_cat_loss,
                           total_reg_loss, total_correct, sum_abs_err, sum_sqr_err,
                           postfix, hist>>
        Accumulate(sc, sr, ok) ==
            /\ scores' = sc /\ scores_reg' = sr
            /\ total_loss' = tl
            /\ total_cat_loss' = total_cat_loss + ls[2]
            /\ total_reg_loss' = total_reg_loss + ls[3]
            /\ num_batches' = nb /\ count' = cnt
            /\ IF ok /\ n = 0
               \* `correct / num_examples` in the arguments of tq.set_postfix
               THEN /\ pc' = "raised" /\ err' = "ZeroDivisionError"
                    /\ trace' = trace \o eval_calls(fetched + 1)
                                 \o <<Ev("accumulate", fetched + 1)>>
                    /\ UNCHANGED hist
               ELSE /\ hist' = Append(hist, [c |-> n, l |-> ls[1], ok |-> ok])
                    /\ pc' = Break(nb)
                    /\ UNCHANGED err
                    \* tq.set_postfix is inside the `if`, the callback after it
                    /\ trace' = trace \o eval_calls(fetched + 1)
                                 \o <<Ev("accumulate", fetched + 1)>>
                                 \o (IF ok THEN <<Ev("report", fetched + 1)>> ELSE <<>>)
                                 \o custom_call(fetched + 1, nb, tb_mode)
            /\ IF ok
               THEN /\ k <= n
                    /\ total_correct' = total_correct + k
                    /\ sum_abs_err' = sum_abs_err + abs_err
                    /\ sum_sqr_err' = sum_sqr_err + sqr_err
                    /\ postfix' = IF n = 0 THEN postfix
                                  ELSE [AvgLoss |-> Quot(tl, nb),
                                        AvgAcc  |-> Quot(total_correct + k, cnt),
                                        AvgMSE  |-> Quot(sum_sqr_err + sqr_err, cnt),
                                        AvgMAE  |-> Quot(sum_abs_err + abs_err, cnt)]
               ELSE UNCHANGED <<total_correct, sum_abs_err, sum_sqr_err, postfix>>
    IN  /\ pc = "loop" /\ fn = "evaluate_hybrid" /\ fetched < loader_len
        /\ ~call_raises(fetched + 1)
        /\ fetched' = fetched + 1
        /\ model_output' = out
        /\ entry_count' = entry_count + n
        /\ labels' = Append(labels, lab)
        /\ IF Len(out) = 1
           \* `model_output[:,:len(data_config.label_value)]` of a vector
           THEN Raise("IndexError", scores, scores_reg)
           ELSE IF cond = "raise"
           THEN Raise("IndexError", scores, scores_reg)
           ELSE IF cond = "yes" /\ Len(cat) < 2
           \* `pred_cat_output.max(1)` of a vector
           THEN Raise("IndexError", scores, scores_reg)
           ELSE LET sc == Append(scores, IF cond = "yes"
                                         THEN score_array(cat, nb, FALSE) ELSE zcat)
                    sr == Append(scores_reg, IF cond = "yes"
                                             THEN score_array(reg, nb, FALSE) ELSE zreg)
                IN  IF ~has_loss_func
                    \* loss is still None: `total_loss += loss`
                    THEN Raise("TypeError", sc, sr)
                    ELSE Accumulate(sc, sr, cond = "yes")
        /\ UNCHANGED <<fvars, tbstate, cfgvars, labels_counts, summary, result>>

\* the same iteration with every element of residual_reg equal to r
EvaluateHybridBatch(n, out, ls, k, r) ==
    EvaluateHybridStep(n, out, ls, k, abs_sum(r, n, num_targets),
                       sqr_sum(r, n, num_targets))

\* the code of evaluate_hybrid after the loop
EvaluateHybridEnd ==
    LET sc0 == np_concatenate(scores)
        sr0 == np_concatenate(scores_reg)
        sc  == squeeze(sc0)
        sr  == squeeze(sr0)
        \* scores_reg.reshape(len(scores_reg), len(target_names)) and
        \* np.concatenate((scores_cat, scores_reg), axis=1)
        joined_ok == /\ Len(sr.data) = Head(sr.shape) * num_targets
                     /\ Len(sc.shape) = 2
                     /\ Head(sc.shape) = Head(sr.shape)
        \* `scores_reg[:,idx]` when more than one target is declared
        reg_cols_ok == num_targets = 1 \/ Len(sr.shape) >= 2
    IN  /\ pc = "epoch_end" /\ fn = "evaluate_hybrid"
        /\ IF has_tb /\ count = 0
           THEN /\ pc' = "raised" /\ err' = "ZeroDivisionError"
                /\ UNCHANGED <<summary, result, trace>>
           ELSE /\ summary' = IF has_tb THEN Quot(total_loss, count) ELSE summary
                /\ trace' = trace \o eval_close
                             \o (IF sc0 = RaisedT \/ sr0 = RaisedT THEN <<>>
                                 ELSE IF reg_cols_ok THEN metric_cat \o metric_reg
                                 ELSE metric_cat)
                /\ IF sc0 = RaisedT \/ sr0 = RaisedT
                   THEN /\ pc' = "raised" /\ err' = "ValueError"
                        /\ UNCHANGED result
                   ELSE IF ~reg_cols_ok
                   THEN /\ pc' = "raised" /\ err' = "IndexError"
                        /\ UNCHANGED result
                   ELSE IF for_training
                   THEN /\ result' = [kind |-> "scalar", value |-> Quot(total_loss, count)]
                        /\ pc' = "returned"
                        /\ UNCHANGED err
                   ELSE IF sr.shape # <<>> /\ sc.shape # <<>>
                   THEN IF joined_ok
                        THEN /\ result' = [kind |-> "tuple", value |-> Quot(total_loss, count),
                                           how |-> "joined",
                                           scores |-> <<sc, [shape |-> <<Head(sr.shape), num_targets>>,
                                                             data |-> sr.data]>>,
                                           labels |-> <<np_concatenate(labels)>>]
                             /\ pc' = "returned"
                             /\ UNCHANGED err
                        ELSE /\ pc' = "raised" /\ err' = "ValueError"
                             /\ UNCHANGED result
                   ELSE /\ result' = [kind |-> "tuple", value |-> Quot(total_loss, count),
                                      how |-> "reg_only", scores |-> <<sr>>,
                                      labels |-> <<np_concatenate(labels)>>]
                        /\ pc' = "returned"
                        /\ UNCHANGED err
        /\ UNCHANGED <<fvars, tbstate, cfgvars, num_batches, count, entry_count, total_loss,
                       total_correct, sum_abs_err, sum_sqr_err, hybvars, scores,
                       labels, labels_counts, postfix, fetched, model_output, hist>>

InitHyb ==
    /\ FlattenIdle
    /\ fn \in {"train_hybrid", "evaluate_hybrid"}
    /\ for_training \in (IF fn = "train_hybrid" THEN {TRUE} ELSE BOOLEAN)
    /\ has_loss_func \in (IF fn = "train_hybrid" THEN {TRUE} ELSE BOOLEAN)
    /\ has_tb \in BOOLEAN
    /\ steps_per_epoch \in StepChoices
    /\ loader_len \in 0..MaxHybridBatches
    /\ num_classes = MaxClasses /\ num_targets \in 1..MaxTargets /\ batch = NoneT /\ caller_kept = NoResult /\ scheduler = "none" /\ PlainCall
    /\ LoopStart

NextHyb ==
    \/ \E n \in Dims : \E out \in OutShapes(num_classes + num_targets) :
       \E ls \in HybridLosses : \E k \in 0..MaxDim : \E r \in Residuals :
         TrainHybridBatch(n, out, ls, k, r)
    \/ \E n \in Dims : \E out \in OutShapes(num_classes + num_targets) :
       \E ls \in HybridLosses : \E k \in 0..MaxDim : \E r \in Residuals :
         EvaluateHybridBatch(n, out, ls, k, r)
    \/ LoaderExhausted
    \/ TrainHybridEnd
    \/ EvaluateHybridEnd

SpecHyb == InitHyb /\ [][NextHyb]_vars

\* ------------------------------------------- hybrid loops on given values
\* Values are held in tenths (0.9 is 9), squared errors in hundredths.
\* row[lo:hi] with the end included
py_slice_inclusive(row, lo, hi) ==
    SubSeq(row, Min(lo, Len(row)) + 1, Min(hi + 1, Len(row)))
\* row[lo:hi] of a Python sequence: both ends are clipped to the row
py_slice(row, lo, hi) ==
    SubSeq(row, Min(lo, Len(row)) + 1, Min(hi, Len(row)))

\* `model_output[:,:len(data_config.label_value)]`, one row of it
cat_slice(row) == py_slice(row, 0, num_classes)
\* `model_output[:,len(data_config.label_value):len(data_config.label_value)
\*               +len(data_config.target_value)]`, one row of it
reg_slice(row) == py_slice(row, num_classes, num_classes + num_targets)

\* `.max(1)`: the index of the largest of the first ncls entries of a row
argmax(row, ncls) ==
    CHOOSE c \in 0..(ncls - 1) :
        /\ \A d \in 0..(ncls - 1) : row[d + 1] <= row[c + 1]
        /\ \A d \in 0..(c - 1) : row[d + 1] < row[c + 1]

\* `_, pred_cat = model_output[:,:len(data_config.label_value)].squeeze().max(1)`
pred_cat_of(output, ncls) ==
    [i \in 1..Len(output) |-> argmax(py_slice(output[i], 0, ncls), ncls)]

\* `correct = (pred_cat == label).sum().item()`
correct_of(pred, label) == Cardinality({i \in 1..Len(pred) : pred[i] = label[i]})

\* `residual_reg = pred_reg - target` for one target: pred_reg is the column
\* after the classes
residual_reg_of(output, target, ncls) ==
    [i \in 1..Len(output) |-> py_slice(output[i], ncls, ncls + 1)[1] - target[i]]

Abs(x) == IF x < 0 THEN -x ELSE x

RECURSIVE abs_err_of(_)
\* `residual_reg.abs().sum().item()`
abs_err_of(res) == IF res = <<>> THEN 0 ELSE Abs(Head(res)) + abs_err_of(Tail(res))

RECURSIVE sqr_err_of(_)
\* `residual_reg.square().sum().item()`
sqr_err_of(res) == IF res = <<>> THEN 0 ELSE Head(res) * Head(res) + sqr_err_of(Tail(res))

\* the rows a model output is drawn from, and the batches of four examples
\* with one label in {0, 1} and the target pt
ScenarioRows == {<<9, 1, 105>>, <<2, 8, 190>>, <<3, 7, 160>>, <<6, 4, 45>>}
ScenarioTarget == <<100, 200, 150, 50>>
ScenarioBatches ==
    {[label |-> lb, target |-> ScenarioTarget, output |-> out] :
        lb \in [1..Len(ScenarioTarget) -> 0..1],
        out \in [1..Len(ScenarioTarget) -> ScenarioRows]}

\* one iteration of train_hybrid / evaluate_hybrid on the batch held in batch
TrainHybridOnBatch(ls) ==
    LET res == residual_reg_of(batch.output, batch.target, num_classes)
    IN  /\ batch # NoneT
        /\ TrainHybridStep(Len(batch.label), <<Len(batch.output), Len(batch.output[1])>>, ls,
                           correct_of(pred_cat_of(batch.output, num_classes), batch.label),
                           abs_err_of(res), sqr_err_of(res))

EvaluateHybridOnBatch(ls) ==
    LET res == residual_reg_of(batch.output, batch.target, num_classes)
    IN  /\ batch # NoneT
        /\ EvaluateHybridStep(Len(batch.label), <<Len(batch.output), Len(batch.output[1])>>, ls,
                              correct_of(pred_cat_of(batch.output, num_classes), batch.label),
                              abs_err_of(res), sqr_err_of(res))

InitScenario ==
    /\ FlattenIdle
    /\ fn \in {"train_hybrid", "evaluate_hybrid"}
    /\ for_training \in (IF fn = "train_hybrid" THEN {TRUE} ELSE BOOLEAN)
    /\ has_loss_func \in (IF fn = "train_hybrid" THEN {TRUE} ELSE BOOLEAN)
    /\ has_tb = FALSE
    /\ steps_per_epoch = NoSteps
    /\ loader_len = 1
    /\ num_classes = 2 /\ num_targets = 1
    /\ batch \in ScenarioBatches /\ caller_kept = NoResult /\ scheduler = "none" /\ PlainCall
    /\ LoopStart

NextScenario ==
    \/ \E ls \in HybridLosses : TrainHybridOnBatch(ls)
    \/ \E ls \in HybridLosses : EvaluateHybridOnBatch(ls)
    \/ LoaderExhausted
    \/ TrainHybridEnd
    \/ EvaluateHybridEnd

SpecScenario == InitScenario /\ [][NextScenario]_vars

\* ------------------------------------------------- slicing one output row
\* the entries of a row, each tagged with its column
SliceValues == 0..2
RowsOfWidth(w) ==
    {[j \in 1..w |-> [col |-> j - 1, v |-> f[j]]] : f \in [1..w -> SliceValues]}

InitSlice ==
    /\ FlattenIdle
    /\ fn \in {"slice", "evaluate_onnx_hybrid"}
    /\ for_training = TRUE /\ steps_per_epoch = NoSteps
    /\ has_loss_func = FALSE /\ has_tb = FALSE /\ loader_len = 1
    /\ num_classes \in 1..MaxClasses /\ num_targets \in 1..MaxTargets
    /\ batch \in {[output |-> <<row>>] : row \in RowsOfWidth(num_classes + num_targets)}
    /\ caller_kept = NoResult /\ scheduler = "none" /\ PlainCall
    /\ LoopStart

\* the two slices of the row, kept where evaluate_hybrid keeps them
SliceRow ==
    /\ fn = "slice" /\ pc = "loop" /\ fetched < loader_len
    /\ fetched' = fetched + 1
    /\ model_output' = <<Len(batch.output), Len(batch.output[1])>>
    /\ scores' = Append(scores, cat_slice(batch.output[1]))
    /\ scores_reg' = Append(scores_reg, reg_slice(batch.output[1]))
    /\ pc' = "returned"
    /\ UNCHANGED <<fvars, tbvars, cfgvars, err, num_batches, count, entry_count, total_loss,
                   total_correct, sum_abs_err, sum_sqr_err, total_cat_loss,
                   total_reg_loss, labels, labels_counts, postfix, summary, result, hist>>

\* `sess.run([], inputs)`: the ordered list of the artifact's output arrays
sess_run(output) == [kind |-> "list", items |-> <<[kind |-> "ndarray", rows |-> output]>>]

\* `score[:, lo:hi]`: a list cannot be indexed with a tuple
getitem_cols(obj, lo, hi) ==
    IF obj.kind = "list" THEN RaisedT
    ELSE [kind |-> "ndarray",
          rows |-> [i \in 1..Len(obj.rows) |-> py_slice(obj.rows[i], lo, hi)]]

RECURSIVE every_nth(_, _)
\* the items at positions 0, step, 2 * step, ... of a sequence
every_nth(q, step) ==
    IF q = <<>> THEN <<>>
    ELSE <<Head(q)>> \o every_nth(SubSeq(q, Min(step, Len(q)) + 1, Len(q)), step)

\* `score[:stop:step]`: a slice of the first axis of an array or of a list
getitem_step(obj, stop, step) ==
    IF obj.kind = "list"
    THEN [kind |-> "list", items |-> every_nth(py_slice(obj.items, 0, stop), step)]
    ELSE [kind |-> "ndarray", rows |-> every_nth(py_slice(obj.rows, 0, stop), step)]

\* one iteration of the loop of evaluate_onnx_hybrid on the batch held in batch
EvaluateOnnxHybridBatch ==
    LET score == sess_run(batch.output)
        cat   == getitem_cols(score, 0, num_classes)
        reg   == getitem_step(score, num_classes, num_classes + num_targets)
    IN  /\ fn = "evaluate_onnx_hybrid" /\ pc = "loop" /\ fetched < loader_len
        /\ fetched' = fetched + 1
        /\ model_output' = <<Len(batch.output), Len(batch.output[1])>>
        /\ trace' = trace \o <<Ev("forward", fetched + 1)>>
        /\ IF cat = RaisedT
           \* `scores_cat.append(score[:,:len(data_config.label_value)])`
           THEN /\ pc' = "raised" /\ err' = "TypeError"
                /\ UNCHANGED <<scores, scores_reg>>
           ELSE /\ scores' = Append(scores, cat)
                /\ scores_reg' = Append(scores_reg, reg)
                /\ pc' = "loop"
                /\ UNCHANGED err
        /\ UNCHANGED <<fvars, tbstate, cfgvars, num_batches, count, entry_count, total_loss,
                       total_correct, sum_abs_err, sum_sqr_err, total_cat_loss,
                       total_reg_loss, labels, labels_counts, postfix, summary, result, hist>>

NextSlice == SliceRow \/ EvaluateOnnxHybridBatch

SpecSlice == InitSlice /\ [][NextSlice]_vars

\* ------------------------------------- evaluate_onnx_classification
\* The caller runs evaluate_classification(for_training=False) and then
\* evaluate_onnx_classification over the same batches; batch holds them, each
\* with its number of examples n (rank-1 label) and of correct predictions k.
BatchLists(len) ==
    {q \in [1..len -> {[n |-> n, k |-> k] : n \in Dims, k \in 0..MaxDim}] :
        \A i \in 1..len : q[i].k \in Corrects(q[i].n)}

EvaluateClassificationOnBatch ==
    /\ batch # NoneT /\ fetched < Len(batch.list)
    /\ EvaluateClassificationBatch([shape |-> <<batch.list[fetched + 1].n>>, mask |-> NoneT],
                                   0, batch.list[fetched + 1].k)

\* the caller keeps what evaluate_classification returned and calls
\* evaluate_onnx_classification (tools.py:256-277: the locals start afresh)
CallEvaluateOnnx ==
    /\ fn = "evaluate_classification" /\ pc = "returned" /\ batch # NoneT
    /\ fn' = "evaluate_onnx_classification" /\ caller_kept' = result
    /\ pc' = "loop" /\ err' = ""
    /\ num_batches' = 0 /\ count' = 0 /\ entry_count' = 0
    /\ total_loss' = 0 /\ total_correct' = 0
    /\ scores' = <<>> /\ labels' = <<>> /\ labels_counts' = <<>>
    /\ postfix' = NoPostfix /\ summary' = NoQuot /\ result' = NoResult
    /\ fetched' = 0 /\ model_output' = <<>> /\ hist' = <<>>
    /\ UNCHANGED <<fvars, tbvars, for_training, steps_per_epoch, has_loss_func, has_tb,
                   loader_len, num_classes, num_targets, batch, scheduler,
                   has_scaler, has_custom_fn, fail_at, fail_in,
                   sum_abs_err, sum_sqr_err, hybvars>>

\* one iteration of the loop of evaluate_onnx_classification: the artifact
\* returns what the model returned for the batch
EvaluateOnnxClassificationBatch ==
    LET b            == [shape |-> <<batch.list[fetched + 1].n>>, mask |-> NoneT]
        label        == CoordTensor(b.shape)
        num_examples == Head(label.shape)
        score        == model_output_of(b)
        nb           == num_batches + 1
        cnt          == count + num_examples
        tc           == total_correct + batch.list[fetched + 1].k
    IN  /\ pc = "loop" /\ fn = "evaluate_onnx_classification" /\ fetched < loader_len
        /\ fetched' = fetched + 1
        /\ model_output' = score.shape
        /\ scores' = Append(scores, tag_rows(score, nb))
        /\ labels' = Append(labels, tag_elems(label, nb))
        /\ num_batches' = nb /\ count' = cnt /\ total_correct' = tc
        /\ postfix' = [NoPostfix EXCEPT !.AvgAcc = Quot(tc, cnt)]
        /\ hist' = Append(hist, [c |-> num_examples, l |-> 0])
        /\ trace' = trace \o <<Ev("forward", fetched + 1), Ev("accumulate", fetched + 1),
                              Ev("report", fetched + 1)>>
        /\ pc' = "loop"
        /\ UNCHANGED <<fvars, tbstate, cfgvars, err, entry_count, total_loss, labels_counts,
                       sum_abs_err, sum_sqr_err, hybvars, summary, result>>

\* the code of evaluate_onnx_classification after the loop
EvaluateOnnxClassificationEnd ==
    LET sc == np_concatenate(scores)
        lb == np_concatenate(labels)
    IN  /\ pc = "epoch_end" /\ fn = "evaluate_onnx_classification"
        /\ IF sc = RaisedT \/ lb = RaisedT
           THEN /\ pc' = "raised" /\ err' = "ValueError"
                /\ UNCHANGED <<result, trace>>
           ELSE /\ result' = [kind |-> "tuple", value |-> Quot(total_correct, count),
                              how |-> "none", scores |-> <<sc>>, labels |-> <<lb>>]
                /\ trace' = trace \o metric_cat
                /\ pc' = "returned"
                /\ UNCHANGED err
        /\ UNCHANGED <<fvars, tbstate, cfgvars, num_batches, count, entry_count, total_loss,
                       total_correct, sum_abs_err, sum_sqr_err, scores, hybvars,
                       labels, labels_counts, postfix, summary, fetched, model_output, hist>>

InitOnnxCls ==
    /\ FlattenIdle
    /\ fn = "evaluate_classification"
    /\ for_training = FALSE /\ has_loss_func = FALSE /\ has_tb = FALSE
    /\ steps_per_epoch = NoSteps
    /\ loader_len \in 0..MaxBatches
    /\ num_classes = MaxClasses /\ num_targets = 0
    /\ batch \in {[list |-> q] : q \in BatchLists(loader_len)} /\ caller_kept = NoResult /\ scheduler = "none" /\ PlainCall
    /\ LoopStart

NextOnnxCls ==
    \/ EvaluateClassificationOnBatch
    \/ LoaderExhausted
    \/ EvaluateClassificationEnd
    \/ CallEvaluateOnnx
    \/ EvaluateOnnxClassificationBatch
    \/ EvaluateOnnxClassificationEnd

SpecOnnxCls == InitOnnxCls /\ [][NextOnnxCls]_vars

\* ------------------------------------------- successive training epochs
\* largest number of training epochs of one run
MaxEpochs == 2

TrainFns == {"train_classification", "train_regression", "train_hybrid"}

\* the caller starts the next epoch with the same loader, scheduler and
\* TensorboardHelper: the locals are assigned anew, the helper keeps its
\* batch_train_count and the sink keeps what was written
NextEpoch ==
    /\ pc = "returned" /\ fn \in TrainFns /\ epoch + 1 < MaxEpochs
    /\ epoch' = epoch + 1 /\ call_log' = <<>> /\ trace' = <<>>
    /\ pc' = "loop" /\ err' = ""
    /\ num_batches' = 0 /\ count' = 0 /\ entry_count' = 0
    /\ total_loss' = 0 /\ total_correct' = 0 /\ sum_abs_err' = 0 /\ sum_sqr_err' = 0
    /\ total_cat_loss' = 0 /\ total_reg_loss' = 0
    /\ postfix' = NoPostfix /\ summary' = NoQuot /\ result' = NoResult
    /\ fetched' = 0 /\ model_output' = <<>> /\ hist' = <<>>
    /\ UNCHANGED <<fvars, cfgvars, batch_train_count, tb_log, trained,
                   scores, scores_reg, labels, labels_counts>>

InitEpochs ==
    /\ FlattenIdle
    /\ fn \in TrainFns
    /\ for_training = TRUE /\ has_loss_func = TRUE
    /\ has_tb \in BOOLEAN
    /\ scheduler \in {"none", "per_step", "per_epoch"}
    /\ steps_per_epoch \in {NoSteps, 1}
    /\ loader_len \in 0..MaxBatches
    /\ num_classes = MaxClasses
    /\ num_targets = (IF fn = "train_classification" THEN 0 ELSE 1)
    /\ batch = NoneT /\ caller_kept = NoResult /\ PlainCall
    /\ LoopStart

NextEpochs ==
    \/ \E b \in PlainStructs : TrainClassificationBatch(b, 0, 0)
    \/ \E n \in Dims : TrainRegressionBatch(n, 0, 0)
    \/ \E n \in Dims : \E out \in OutShapes(num_classes + num_targets) :
         TrainHybridBatch(n, out, <<0, 0, 0>>, 0, 0)
    \/ LoaderExhausted
    \/ TrainClassificationEnd
    \/ TrainRegressionEnd
    \/ TrainHybridEnd
    \/ NextEpoch

SpecEpochs == InitEpochs /\ [][NextEpochs]_vars

\* --------------------------------------- the calls made to the collaborators
EvalFns == {"evaluate_classification", "evaluate_regression", "evaluate_hybrid"}

\* the loops in which an iteration reaches the model call
\* (evaluate_regression raises before it)
ModelFns == TrainFns \cup {"evaluate_classification", "evaluate_hybrid"}

\* the variant of propagate with a handler that goes on to the next batch
swallow(e) == [pc |-> "loop", err |-> ""]

\* an exception raised by a call of the loop body: no handler encloses the
\* call, the exception leaves the function
propagate(e) == [pc |-> "raised", err |-> e]

\* an iteration in which the model call (`model(*inputs)`) or, in a train
\* loop, the loss call raises: the exception is not caught, the statements
\* before the call have run
BatchCallRaises(b) ==
    LET i == fetched + 1
    IN  /\ pc = "loop" /\ fn \in ModelFns /\ fetched < loader_len
        /\ call_raises(i)
        /\ fetched' = i
        /\ pc' = propagate("RuntimeError").pc /\ err' = propagate("RuntimeError").err
        /\ entry_count' = IF fn \in {"evaluate_classification", "evaluate_hybrid"}
                          THEN entry_count + Head(b.shape) ELSE entry_count
        /\ labels_counts' = IF fn = "evaluate_classification" /\ ~for_training
                                /\ b.mask # NoneT
                             THEN Append(labels_counts, squeeze(mask_sum_last(b.mask)))
                             ELSE labels_counts
        /\ trace' = trace
                     \o (IF fn \in TrainFns THEN <<Ev("zero_grad", i)>> ELSE <<>>)
                     \o <<Ev("forward", i)>>
                     \o (IF fail_in = "loss" THEN <<Ev("loss", i)>> ELSE <<>>)
        /\ UNCHANGED <<fvars, tbstate, cfgvars, num_batches, count, total_loss,
                       total_correct, sum_abs_err, sum_sqr_err, hybvars, scores,
                       labels, postfix, summary, result, model_output, hist>>

InitCalls ==
    /\ FlattenIdle
    /\ fn \in TrainFns \cup EvalFns
    /\ for_training \in (IF fn \in TrainFns THEN {TRUE} ELSE BOOLEAN)
    /\ has_loss_func \in (IF fn \in TrainFns THEN {TRUE} ELSE BOOLEAN)
    /\ has_tb \in BOOLEAN
    /\ has_custom_fn \in (IF has_tb THEN BOOLEAN ELSE {FALSE})
    /\ has_scaler \in (IF fn \in TrainFns THEN BOOLEAN ELSE {FALSE})
    /\ scheduler \in (IF fn \in TrainFns THEN {"none", "per_step", "per_epoch"}
                      ELSE {"none"})
    /\ steps_per_epoch = NoSteps
    /\ loader_len \in 0..MaxBatches
    /\ fail_at \in (IF fn \in ModelFns THEN 0..loader_len ELSE {0})
    /\ fail_in \in (IF fn \in TrainFns /\ fail_at > 0 THEN {"model", "loss"}
                    ELSE {"model"})
    /\ num_classes = MaxClasses
    /\ num_targets = (IF fn \in {"train_classification", "evaluate_classification"}
                      THEN 0 ELSE 1)
    /\ batch = NoneT /\ caller_kept = NoResult
    /\ LoopStart

NextCalls ==
    \/ \E b \in PlainStructs : TrainClassificationBatch(b, 0, 0)
    \/ \E b \in PlainStructs : EvaluateClassificationBatch(b, 0, 0)
    \/ \E n \in Dims : TrainRegressionBatch(n, 0, 0)
    \/ \E n \in Dims : EvaluateRegressionBatch(n)
    \/ \E n \in Dims : \E out \in OutShapes(num_classes + num_targets) :
         TrainHybridBatch(n, out, <<0, 0, 0>>, 0, 0)
    \/ \E n \in Dims : \E out \in OutShapes(num_classes + num_targets) :
         EvaluateHybridBatch(n, out, <<0, 0, 0>>, 0, 0)
    \/ \E b \in PlainStructs : BatchCallRaises(b)
    \/ LoaderExhausted
    \/ TrainClassificationEnd
    \/ EvaluateClassificationEnd
    \/ TrainRegressionEnd
    \/ EvaluateRegressionEnd
    \/ TrainHybridEnd
    \/ EvaluateHybridEnd

SpecCalls == InitCalls /\ [][NextCalls]_vars

\* ------------------------------------------------ batches of zero examples
\* The batch source yields batches of zero examples and of MaxDim examples
\* (rank-1 label, no mask); batch holds their sizes. For a batch of n
\* examples the model returns n rows.
SizeLists(len) == [1..len -> {[n |-> n, k |-> 0] : n \in {0, MaxDim}}]

NextSize == batch.list[fetched + 1].n

TrainClassificationOnSizes ==
    /\ fetched < Len(batch.list)
    /\ TrainClassificationBatch([shape |-> <<NextSize>>, mask |-> NoneT], 0, 0)

TrainRegressionOnSizes ==
    /\ fetched < Len(batch.list)
    /\ TrainRegressionBatch(NextSize, 0, 0)

EvaluateRegressionOnSizes ==
    /\ fetched < Len(batch.list)
    /\ EvaluateRegressionBatch(NextSize)

TrainHybridOnSizes ==
    /\ fetched < Len(batch.list)
    /\ TrainHybridBatch(NextSize, <<NextSize, num_classes + num_targets>>, <<0, 0, 0>>, 0, 0)

EvaluateHybridOnSizes ==
    /\ fetched < Len(batch.list)
    /\ EvaluateHybridBatch(NextSize, <<NextSize, num_classes + num_targets>>,
                           <<0, 0, 0>>, 0, 0)

InitSizes ==
    /\ FlattenIdle
    /\ fn \in TrainFns \cup EvalFns \cup {"evaluate_onnx_classification"}
    /\ for_training \in (IF fn \in EvalFns THEN BOOLEAN ELSE {fn \in TrainFns})
    /\ has_loss_func \in (IF fn \in EvalFns THEN BOOLEAN ELSE {fn \in TrainFns})
    /\ has_tb \in (IF fn = "evaluate_onnx_classification" THEN {FALSE} ELSE BOOLEAN)
    /\ steps_per_epoch = NoSteps
    /\ loader_len \in 0..MaxBatches
    /\ num_classes = MaxClasses
    /\ num_targets = (IF fn \in {"train_classification", "evaluate_classification",
                                 "evaluate_onnx_classification"}
                      THEN 0 ELSE 1)
    /\ batch \in {[list |-> q] : q \in SizeLists(loader_len)}
    /\ caller_kept = NoResult /\ scheduler = "none" /\ PlainCall
    /\ LoopStart

NextSizes ==
    \/ TrainClassificationOnSizes
    \/ EvaluateClassificationOnBatch
    \/ EvaluateOnnxClassificationBatch
    \/ TrainRegressionOnSizes
    \/ EvaluateRegressionOnSizes
    \/ TrainHybridOnSizes
    \/ EvaluateHybridOnSizes
    \/ LoaderExhausted
    \/ TrainClassificationEnd
    \/ EvaluateClassificationEnd
    \/ EvaluateOnnxClassificationEnd
    \/ TrainRegressionEnd
    \/ EvaluateRegressionEnd
    \/ TrainHybridEnd
    \/ EvaluateHybridEnd

SpecSizes == InitSizes /\ [][NextSizes]_vars

\* ------------------------------------------- truths with and without a mask
\* The truths y of a batch: the label (of the given shape, rank 1 or 2) and,
\* for some batches, the '<label>_mask' entry; batch holds them.
FirstFalse(shape) ==
    [shape |-> shape, data |-> [k \in 1..Prod(shape) |-> k # 1]]

Truths ==
    LET shapes == {t \in LabelShapes : Len(t) <= 2}
    IN  {[shape |-> t] : t \in shapes}
          \cup {[shape |-> t, mask |-> FirstFalse(t)] : t \in shapes}

\* `try: label_mask = y[label_names[0] + '_mask'].bool()`
\* `except KeyError: label_mask = None`
label_mask_of(y) == IF "mask" \in DOMAIN y THEN y.mask ELSE NoneT

NextTruth == batch.list[fetched + 1]

TrainClassificationOnTruths ==
    /\ fetched < Len(batch.list)
    /\ TrainClassificationBatch([shape |-> NextTruth.shape,
                                 mask |-> label_mask_of(NextTruth)], 0, 0)

EvaluateClassificationOnTruths ==
    /\ fetched < Len(batch.list)
    /\ EvaluateClassificationBatch([shape |-> NextTruth.shape,
                                    mask |-> label_mask_of(NextTruth)], 0, 0)

InitTruths ==
    /\ FlattenIdle
    /\ fn \in {"train_classification", "evaluate_classification"}
    /\ for_training \in (IF fn = "train_classification" THEN {TRUE} ELSE BOOLEAN)
    /\ has_loss_func = TRUE /\ has_tb = FALSE
    /\ steps_per_epoch = NoSteps
    /\ loader_len \in 0..MaxBatches
    /\ num_classes = MaxClasses /\ num_targets = 0
    /\ batch \in {[list |-> q] : q \in [1..loader_len -> Truths]}
    /\ caller_kept = NoResult /\ scheduler = "none" /\ PlainCall
    /\ LoopStart

NextTruths ==
    \/ TrainClassificationOnTruths
    \/ EvaluateClassificationOnTruths
    \/ LoaderExhausted
    \/ TrainClassificationEnd
    \/ EvaluateClassificationEnd

SpecTruths == InitTruths /\ [][NextTruths]_vars

\* ------------------------------------------------ the truth of hybrid mode
\* A regression target of the batch: one value per row, as a vector or as a
\* single column.
TargetShapes == {<<r>> : r \in 1..MaxNumel} \cup {<<r, 1>> : r \in 1..MaxNumel}

\* a tensor of the truths y: its element is the pair of its source (0 for the
\* label, j for the j-th declared target) and its own coordinate
TruthTensor(src, shape) ==
    [shape |-> shape,
     data  |-> [k \in 1..Prod(shape) |-> [src |-> src, coord |-> Unravel(k - 1, shape)]]]

\* t[:,None] of a vector
unsqueeze_last(t) == [shape |-> t.shape \o <<1>>, data |-> t.data]

\* the columns of b on the right of the columns of a (both of rank 2); the
\* row counts must agree
hstack(a, b) ==
    IF a.shape[1] # b.shape[1] THEN RaisedT
    ELSE LET n  == a.shape[1]
             ca == a.shape[2]
             cb == b.shape[2]
             w  == ca + cb
         IN  [shape |-> <<n, w>>,
              data  |-> [k \in 1..(n * w) |->
                           LET r == (k - 1) \div w
                               c == (k - 1) % w
                           IN  IF c < ca THEN a.data[r * ca + c + 1]
                               ELSE b.data[r * cb + (c - ca) + 1]]]

\* torch.column_stack((a, b)): a vector counts as one column
column_stack(a, b) ==
    hstack(IF Len(a.shape) = 1 THEN unsqueeze_last(a) ELSE a,
           IF Len(b.shape) = 1 THEN unsqueeze_last(b) ELSE b)

\* the variant of cat_dim1 that puts the second tensor first
cat_dim1_swapped(a, b) == hstack(b, a)

\* torch.cat((a, b), dim=1)
cat_dim1(a, b) == hstack(a, b)

RECURSIVE stack_targets(_)
\* `for idx, names in enumerate(data_config.target_names)`: the first target
\* as it is, every further one stacked on the right
stack_targets(ts) ==
    IF Len(ts) = 1 THEN ts[1]
    ELSE LET target == stack_targets(SubSeq(ts, 1, Len(ts) - 1))
         IN  IF target = RaisedT THEN RaisedT
             ELSE column_stack(target, ts[Len(ts)])

\* the label and the stacked targets of the batch held in batch
truth_label == flatten_label(TruthTensor(0, batch.label), NoneT)

truth_target ==
    stack_targets([j \in 1..num_targets |-> TruthTensor(j, batch.targets[j])])

\* `num_examples = max(label.shape[0],target.shape[0])`
truth_examples ==
    IF truth_label.shape[1] > truth_target.shape[1]
    THEN truth_label.shape[1] ELSE truth_target.shape[1]

\* `loss_target = torch.cat((label,target),dim=1)` after the two `[:,None]`
loss_target ==
    cat_dim1(IF Len(truth_label.shape) = 1 THEN unsqueeze_last(truth_label)
             ELSE truth_label,
             IF Len(truth_target.shape) = 1 THEN unsqueeze_last(truth_target)
             ELSE truth_target)

\* an iteration of a hybrid loop from the truths of the batch to the truth
\* handed to the loss function, which is kept in result; num_examples is
\* kept in count
BuildTruth ==
    /\ pc = "loop" /\ fetched < loader_len
    /\ fetched' = fetched + 1
    /\ IF num_targets = 0
       \* `target = target.to(dev,non_blocking=True)` with no target declared
       THEN /\ pc' = "raised" /\ err' = "UnboundLocalError"
            /\ UNCHANGED <<count, result>>
       ELSE IF truth_target = RaisedT
       THEN /\ pc' = "raised" /\ err' = "RuntimeError"
            /\ UNCHANGED <<count, result>>
       ELSE IF ~has_loss_func
       \* `if loss_func != None:` of evaluate_hybrid
       THEN /\ count' = count + truth_examples
            /\ UNCHANGED <<pc, err, result>>
       ELSE IF loss_target = RaisedT
       THEN /\ pc' = "raised" /\ err' = "RuntimeError"
            /\ UNCHANGED <<count, result>>
       ELSE /\ count' = count + truth_examples
            /\ result' = [kind |-> "loss_target", value |-> loss_target]
            /\ UNCHANGED <<pc, err>>
    /\ UNCHANGED <<fvars, tbvars, cfgvars, num_batches, entry_count, total_loss,
                   total_correct, sum_abs_err, sum_sqr_err, hybvars, scores,
                   labels, labels_counts, postfix, summary, model_output, hist>>

TrainHybridTruth == fn = "train_hybrid" /\ BuildTruth

EvaluateHybridTruth == fn = "evaluate_hybrid" /\ BuildTruth

InitLayout ==
    /\ FlattenIdle
    /\ fn \in {"train_hybrid", "evaluate_hybrid"}
    /\ for_training = TRUE /\ steps_per_epoch = NoSteps
    /\ has_loss_func \in (IF fn = "train_hybrid" THEN {TRUE} ELSE BOOLEAN)
    /\ has_tb = FALSE /\ loader_len = 1
    /\ num_classes = MaxClasses /\ num_targets \in 0..MaxTargets
    /\ batch \in {[label |-> l, targets |-> q] :
                    l \in {t \in LabelShapes : Len(t) <= 2},
                    q \in [1..num_targets -> TargetShapes]}
    /\ caller_kept = NoResult /\ scheduler = "none" /\ PlainCall
    /\ LoopStart

NextLayout == TrainHybridTruth \/ EvaluateHybridTruth

SpecLayout == InitLayout /\ [][NextLayout]_vars

\* --------------------------------- rows of label and of targets that differ
\* an iteration of evaluate_hybrid on a batch whose label has nl values and
\* whose targets have nt rows, nl # nt: num_examples is the larger of the
\* two, and the iteration ends at the latest at
\* `loss_target = torch.cat((label,target),dim=1)`
EvaluateHybridRagged(nl, nt, out) ==
    LET n    == IF nl > nt THEN nl ELSE nt
        nb   == num_batches + 1
        cat  == cat_block(out)
        reg  == reg_block(out)
        cond == blocks_match(cat, reg, n)
        zcat == score_array(<<n, num_classes>>, nb, TRUE)
        zreg == score_array(IF num_targets > 1 THEN <<n, num_targets>> ELSE <<n>>,
                            nb, TRUE)
        sliced == ~(Len(out) = 1 \/ cond = "raise" \/ (cond = "yes" /\ Len(cat) < 2))
    IN  /\ pc = "loop" /\ fn = "evaluate_hybrid" /\ fetched < loader_len
        /\ ~call_raises(fetched + 1)
        /\ nl # nt
        /\ fetched' = fetched + 1
        /\ model_output' = out
        /\ entry_count' = entry_count + n
        /\ labels' = Append(labels,
                            tag_elems(flatten_label(CoordTensor(<<nl>>), NoneT), nb))
        /\ scores' = IF sliced
                     THEN Append(scores, IF cond = "yes"
                                         THEN score_array(cat, nb, FALSE) ELSE zcat)
                     ELSE scores
        /\ scores_reg' = IF sliced
                         THEN Append(scores_reg, IF cond = "yes"
                                                 THEN score_array(reg, nb, FALSE) ELSE zreg)
                         ELSE scores_reg
        /\ pc' = "raised"
        /\ err' = IF ~sliced THEN "IndexError"
                  ELSE IF has_loss_func THEN "RuntimeError" ELSE "TypeError"
        /\ trace' = trace \o <<Ev("forward", fetched + 1)>>
        /\ UNCHANGED <<fvars, tbstate, cfgvars, labels_counts, summary, result,
                       num_batches, count, total_loss, total_cat_loss, total_reg_loss,
                       total_correct, sum_abs_err, sum_sqr_err, postfix, hist>>

InitAlign ==
    /\ FlattenIdle
    /\ fn = "evaluate_hybrid"
    /\ for_training \in BOOLEAN /\ has_loss_func \in BOOLEAN /\ has_tb = FALSE
    /\ steps_per_epoch = NoSteps
    /\ loader_len \in 0..MaxHybridBatches
    /\ num_classes = MaxClasses /\ num_targets \in 1..MaxTargets
    /\ batch = NoneT /\ caller_kept = NoResult /\ scheduler = "none" /\ PlainCall
    /\ LoopStart

NextAlign ==
    \/ \E n \in Dims : \E out \in OutShapes(num_classes + num_targets) :
         EvaluateHybridBatch(n, out, <<0, 0, 0>>, 0, 0)
    \/ \E nl, nt \in Dims : \E out \in OutShapes(num_classes + num_targets) :
         EvaluateHybridRagged(nl, nt, out)
    \/ LoaderExhausted
    \/ EvaluateHybridEnd

SpecAlign == InitAlign /\ [][NextAlign]_vars

\* ------------------------------------- evaluate_classification with masks
\* largest number of batches of a pass of the regrouping specification
MaxRegroupBatches == 2

\* batches whose label is a vector or a sequence per entry, with or without
\* the '<label>_mask' entry
MaskStructs ==
    {[shape |-> s, mask |-> NoneT] : s \in {t \in LabelShapes : Len(t) <= 2}}
      \cup {[shape |-> m.shape, mask |-> m] :
              m \in UNION {MasksOf(t) : t \in {u \in LabelShapes : Len(u) <= 2}}}

InitRegroup ==
    /\ FlattenIdle
    /\ fn = "evaluate_classification"
    /\ for_training \in BOOLEAN /\ has_loss_func = FALSE /\ has_tb = FALSE
    /\ steps_per_epoch \in {NoSteps, 1}
    /\ loader_len \in 0..MaxRegroupBatches
    /\ num_classes = MaxClasses /\ num_targets = 0 /\ batch = NoneT /\ caller_kept = NoResult /\ scheduler = "none" /\ PlainCall
    /\ LoopStart

NextRegroup ==
    \/ \E b \in MaskStructs : \E k \in {0, Head(flatten_label(CoordTensor(b.shape), b.mask).shape)} :
         EvaluateClassificationBatch(b, 0, k)
    \/ LoaderExhausted
    \/ EvaluateClassificationEnd

SpecRegroup == InitRegroup /\ [][NextRegroup]_vars

\* ------------------------------------------- the flatten specification
InitFlatten ==
    /\ \E s \in LabelShapes :
         /\ f_label = CoordTensor(s)
         /\ f_mask \in {NoneT} \cup MasksOf(s)
         /\ \/ /\ f_kind = "class_axis"
               /\ \E c \in 1..MaxClasses : f_preds = PredTensor(s, c)
            \/ /\ f_kind = "same_shape"
               /\ f_preds = SameShapePred(s)
    /\ f_out_label = NoneT
    /\ f_out_preds = NoneT
    /\ LoopIdle

CallFlattenLabel ==
    /\ f_out_label = NoneT
    /\ f_out_label' = flatten_label(f_label, f_mask)
    /\ UNCHANGED <<f_label, f_mask, f_preds, f_kind, f_out_preds, lvars>>

CallFlattenPreds ==
    /\ f_out_preds = NoneT
    /\ f_out_preds' = flatten_preds(f_preds, f_mask, 2)
    /\ UNCHANGED <<f_label, f_mask, f_preds, f_kind, f_out_label, lvars>>

NextFlatten == CallFlattenLabel \/ CallFlattenPreds

SpecFlatten == InitFlatten /\ [][NextFlatten]_vars

\* ------------------------------------------------ flatten: claims C4 - C6
FlattenDone == f_out_label # NoneT /\ f_out_preds # NoneT

TruePositions(mask) == {k \in 1..Len(mask.data) : mask.data[k]}

\* out is rank 1 and holds exactly the elements of label whose mask is true,
\* in row-major order of their coordinates
MaskedInOrder(out, label, mask) ==
    /\ out.shape = <<Cardinality(TruePositions(mask))>>
    /\ Len(out.data) = Cardinality(TruePositions(mask))
    /\ {out.data[i] : i \in 1..Len(out.data)}
         = {label.data[k] : k \in TruePositions(mask)}
    /\ \A i, j \in 1..Len(out.data) :
         i < j => Ravel(out.data[i], label.shape) < Ravel(out.data[j], label.shape)

\* row i of the flattened predictions holds the class scores of the coordinate
\* of element i of the flattened label, and column c is class c
RowsAligned(outp, outl) ==
    /\ outp # RaisedT
    /\ Len(outp.shape) = 2
    /\ outp.shape[1] = Len(outl.data)
    /\ Len(outp.data) = outp.shape[1] * outp.shape[2]
    /\ \A i \in 1..outp.shape[1] : \A c \in 1..outp.shape[2] :
         LET e == outp.data[(i - 1) * outp.shape[2] + c]
         IN  e.coord = outl.data[i] /\ e.cls = c - 1

C5_Original ==
    (f_out_label # NoneT /\ f_mask # NoneT)
      => MaskedInOrder(f_out_label, f_label, f_mask)

\* C5 (amended): for a label of rank >= 2 and a mask of its shape,
\* _flatten_label returns the rank-1 tensor of exactly the entries whose mask is
\* true, in row-major order; a rank-1 label is returned unchanged and the mask
\* is not applied to it.
C5_LabelMaskedRank2Up ==
    (f_out_label # NoneT /\ f_mask # NoneT)
      => IF Len(f_label.shape) >= 2
         THEN MaskedInOrder(f_out_label, f_label, f_mask)
         ELSE f_out_label = f_label

C5_Witness ==
    /\ f_out_label # NoneT /\ f_mask # NoneT
    /\ f_label.shape = <<1, 2, 2>>
    /\ f_mask.data = <<TRUE, FALSE, FALSE, TRUE>>
    /\ f_out_label = [shape |-> <<2>>, data |-> <<<<0, 0, 0>>, <<0, 1, 1>>>>]

\* C6 (as stated): for every raw output of rank >= 3 (rank 3 and rank 4) whose
\* class axis is axis 1, row i of the flattened prediction holds the class
\* scores of the coordinate of element i of the flattened label, and column c
\* is class c.
C6_PredsAlignedRank3Up ==
    (FlattenDone /\ f_kind = "class_axis" /\ Len(f_preds.shape) >= 3)
      => RowsAligned(f_out_preds, f_out_label)

\* ------------------------------------------------ classification: claim C1
\* C1: after the batches recorded in hist, with example counts c_i and losses
\* l_i, the AvgLoss that evaluate_classification reports at every batch
\* boundary, and the epoch loss it writes at epoch end, equal
\* sum(l_i * c_i) / sum(c_i); those of train_classification equal sum(l_i) / n.
C1_ClsRunningAvgLoss ==
    /\ (fn = "evaluate_classification" /\ postfix # NoPostfix /\ pc # "raised")
         => RatEq(postfix.AvgLoss, Quot(SumLC(hist), SumC(hist)))
    /\ (fn = "evaluate_classification" /\ summary # NoQuot)
         => RatEq(summary, Quot(SumLC(hist), SumC(hist)))
    /\ (fn = "train_classification" /\ postfix # NoPostfix /\ pc # "raised")
         => RatEq(postfix.AvgLoss, Quot(SumL(hist), Len(hist)))
    /\ (fn = "train_classification" /\ summary # NoQuot)
         => RatEq(summary, Quot(SumL(hist), Len(hist)))

\* two batches of different sizes and different losses, where the weighted and
\* the unweighted mean differ, reported at epoch end by the evaluation loop
C1_Witness ==
    /\ fn = "evaluate_classification" /\ pc = "returned"
    /\ hist = <<[c |-> 1, l |-> 2], [c |-> 2, l |-> 1]>>
    /\ summary = <<4, 3>>
    /\ postfix.AvgLoss = <<4, 3>>

\* ------------------------------------------------- regrouping: claim C10
\* every per-batch array of recorded counts, laid end to end (a single entry's
\* count is a 0-d array holding one number)
AllCounts == ConcatData(labels_counts)

\* C10: when evaluate_classification(for_training=False) reaches its end with
\* N flat scores, N different from the number of entries, and recorded
\* per-entry valid counts that sum to N, it returns the scores regrouped into
\* one sub-sequence per entry, each as long as that entry's count, and
\* flattening the regrouped scores gives back the flat array in order.
C10_RaggedRoundTrip ==
    [][(/\ pc = "epoch_end" /\ fn = "evaluate_classification" /\ ~for_training
        /\ Len(labels_counts) > 0
        /\ count # entry_count
        /\ Len(AllCounts) = entry_count
        /\ SumSeq(AllCounts) = count)
       => (/\ pc' = "returned"
           /\ result'.how = "jagged"
           /\ Len(result'.scores) = entry_count
           /\ \A e \in 1..entry_count : Head(result'.scores[e].shape) = AllCounts[e]
           /\ ak_flatten(result'.scores) = ConcatData(scores))]_vars

\* ------------------------------------------------- regression: claim C3
\* C3: over a non-empty sequence of well-formed regression batches,
\* evaluate_regression reaches its return statement and returns
\* sum(l_i * c_i) / sum(c_i); train_regression reports sum(l_i) / n.
C3_RegressionMeanLoss ==
    /\ (fn = "evaluate_regression" /\ loader_len >= 1) => pc # "raised"
    /\ (fn = "evaluate_regression" /\ loader_len >= 1 /\ pc = "returned")
         => RatEq(result.value, Quot(SumLC(hist), SumC(hist)))
    /\ (fn = "train_regression" /\ summary # NoQuot)
         => RatEq(summary, Quot(SumL(hist), Len(hist)))

\* ------------------------------------------- hybrid: claims C2, C7, C8, C9
AllOk(h) == \A i \in 1..Len(h) : h[i].ok

\* C2: over well-formed batches with example counts c_i and combined losses
\* l_i, the mean loss evaluate_hybrid returns and writes as the epoch loss is
\* sum(l_i * c_i) / sum(c_i); train_hybrid reports sum(l_i) / n.
C2_HybridMeanLoss ==
    /\ (fn = "evaluate_hybrid" /\ pc = "returned" /\ AllOk(hist))
         => /\ RatEq(result.value, Quot(SumLC(hist), SumC(hist)))
            /\ summary # NoQuot => RatEq(summary, Quot(SumLC(hist), SumC(hist)))
    /\ (fn = "train_hybrid" /\ pc = "returned" /\ AllOk(hist))
         => RatEq(summary, Quot(SumL(hist), Len(hist)))

\* C7: with steps_per_epoch = k >= 1 and a batch source of m batches, a loop
\* never processes more than min(k, m) batches, whatever the batches hold, and
\* has processed exactly min(k, m) when it leaves the loop.
C7_StepBudget ==
    (steps_per_epoch >= 1 /\ pc \in {"loop", "epoch_end", "returned"})
      => /\ num_batches <= Min(steps_per_epoch, loader_len)
         /\ fetched <= Min(steps_per_epoch, loader_len)
         /\ pc # "loop" => num_batches = Min(steps_per_epoch, loader_len)

\* C8: in train_hybrid and evaluate_hybrid a batch whose raw model output is
\* rank 1 does not raise, adds nothing to the cumulative correct count and
\* leaves the statistics of the other batches as they were.
C8_DegenerateBatch ==
    [][(/\ fn \in {"train_hybrid", "evaluate_hybrid"}
        /\ pc = "loop" /\ fetched' = fetched + 1
        /\ Len(model_output') = 1)
       => (/\ pc' # "raised"
           /\ total_correct' = total_correct
           /\ sum_abs_err' = sum_abs_err
           /\ sum_sqr_err' = sum_sqr_err
           /\ SubSeq(hist', 1, Len(hist)) = hist)]_vars

\* the block has a leading dimension and it is not n
LeadDiffers(block, n) == block # <<>> /\ block[1] # n

\* C9: in evaluate_hybrid, a batch whose sliced classification or regression
\* block has a leading dimension different from the batch's example count does
\* not end the pass: the loop goes on (or stops on its budget), total_correct,
\* sum_abs_err and sum_sqr_err keep their values, and zero-filled placeholder
\* scores of num_examples rows are recorded for the batch.
C9_MismatchZeroed ==
    [][(/\ fn = "evaluate_hybrid"
        /\ pc = "loop" /\ fetched' = fetched + 1
        /\ Len(model_output') = 2
        /\ \/ LeadDiffers(cat_block(model_output'), entry_count' - entry_count)
           \/ LeadDiffers(reg_block(model_output'), entry_count' - entry_count))
       => (/\ pc' \in {"loop", "epoch_end"}
           /\ total_correct' = total_correct
           /\ sum_abs_err' = sum_abs_err
           /\ sum_sqr_err' = sum_sqr_err
           /\ Len(scores') = Len(scores) + 1
           /\ scores'[Len(scores')].shape = <<entry_count' - entry_count, num_classes>>
           /\ \A k \in 1..Len(scores'[Len(scores')].data) :
                scores'[Len(scores')].data[k].zero
           /\ Len(scores_reg') = Len(scores_reg) + 1
           /\ Head(scores_reg'[Len(scores_reg')].shape) = entry_count' - entry_count)]_vars

\* ------------------------------------------- regrouping: claims C11, C12
\* the strategy for a pass that is not for training: none exactly when the
\* flat count equals entry_count, otherwise by whether a mask was observed
SelectedRegrouping ==
    IF count = entry_count THEN "none"
    ELSE IF Len(labels_counts) > 0 THEN "jagged" ELSE "uniform"

\* C11: at the end of evaluate_classification(for_training=False) no
\* regrouping happens exactly when the flat count equals entry_count;
\* otherwise the scores are regrouped jagged if a mask was observed in a batch
\* of the pass and by the fixed-multiplicity reshape if none was; with
\* for_training=True the pass returns without regrouping.
C11_RegroupSelection ==
    [][(/\ pc = "epoch_end" /\ fn = "evaluate_classification" /\ count > 0
        /\ ((~for_training /\ Len(labels_counts) = 0) => (count % entry_count = 0)))
       => (/\ pc' = "returned"
           /\ for_training => result'.kind = "scalar"
           /\ ~for_training => result'.how = SelectedRegrouping)]_vars

\* C12: in evaluate_classification(for_training=False) with no mask and a
\* fixed multiplicity m > 1 per entry, the pass returns the scores as an array
\* of shape (entries, channels, m) with scores[e][c][j] the flat score row
\* e*m + j, column c, and each label array reshaped to (entries, m).
C12_UniformRegrouping ==
    [][(/\ pc = "epoch_end" /\ fn = "evaluate_classification" /\ ~for_training
        /\ Len(labels_counts) = 0 /\ count > entry_count
        /\ count % entry_count = 0)
       => LET m    == count \div entry_count
              flat == np_concatenate(scores)
              lab  == np_concatenate(labels)
          IN  /\ pc' = "returned"
              /\ Len(result'.scores) = 1 /\ Len(result'.labels) = 1
              /\ result'.scores[1].shape = <<entry_count, num_classes, m>>
              /\ \A e \in 0..(entry_count - 1) : \A c \in 0..(num_classes - 1) :
                   \A j \in 0..(m - 1) :
                     result'.scores[1].data[(e * num_classes + c) * m + j + 1]
                       = flat.data[(e * m + j) * num_classes + c + 1]
              /\ result'.labels[1].shape = <<entry_count, m>>
              /\ result'.labels[1].data = lab.data]_vars

\* ------------------------------------------- hybrid on values: claim C13
\* label = [0,1,1,0], pt = [10.0,20.0,15.0,5.0] and the four output rows
ConcreteScenario ==
    [label  |-> <<0, 1, 1, 0>>,
     target |-> ScenarioTarget,
     output |-> <<(<<9, 1, 105>>), (<<2, 8, 190>>), (<<3, 7, 160>>), (<<6, 4, 45>>)>>]

\* C13: with 2 classes and 1 target, the batch of the scenario makes the
\* hybrid loop derive the predictions [0,1,1,0], count 4 correct, and add 3.0
\* to the summed absolute error and 2.5 to the summed squared error.
C13_ConcreteScenario ==
    (batch = ConcreteScenario /\ fetched = 1)
      => /\ pred_cat_of(batch.output, num_classes) = <<0, 1, 1, 0>>
         /\ pc # "raised"
         /\ total_correct = 4
         /\ sum_abs_err = 30
         /\ sum_sqr_err = 250

\* ------------------------------------------------- slicing: claim C14
\* C14: for an output row of width num_classes + num_targets, the
\* classification slice [0, num_classes) and the regression slice
\* [num_classes, num_classes + num_targets) share no column and together hold
\* every column of the row exactly once.
C14_SlicesPartitionRow ==
    (fn = "slice" /\ pc = "returned")
      => LET row == batch.output[1]
             cat == scores[1]
             reg == scores_reg[1]
         IN  /\ {cat[i].col : i \in 1..Len(cat)} = 0..(num_classes - 1)
             /\ {reg[i].col : i \in 1..Len(reg)}
                  = num_classes..(num_classes + num_targets - 1)
             /\ {cat[i].col : i \in 1..Len(cat)} \cap {reg[i].col : i \in 1..Len(reg)} = {}
             /\ cat \o reg = row

\* a row of two classes and two targets, sliced
C14_Witness ==
    /\ fn = "slice" /\ pc = "returned"
    /\ num_classes = 2 /\ num_targets = 2
    /\ Len(scores[1]) = 2 /\ Len(scores_reg[1]) = 2
    /\ scores_reg[1][1].col = 2

\* C15: for every batch, evaluate_onnx_hybrid takes as regression block the
\* columns [num_classes, num_classes + num_targets) of every output row, the
\* block evaluate_hybrid takes from the same raw output.
C15_OnnxRegressionBlock ==
    (fn = "evaluate_onnx_hybrid" /\ fetched = 1)
      => /\ pc # "raised"
         /\ Len(scores_reg) = 1
         /\ scores_reg[1].kind = "ndarray"
         /\ scores_reg[1].rows = [i \in 1..Len(batch.output) |-> reg_slice(batch.output[i])]

\* ------------------------------------- inference artifact: claim C16
\* C16: over the same batches with rank-1 labels, the artifact returning what
\* the model returns, evaluate_onnx_classification returns the accuracy, the
\* per-example scores and the labels that
\* evaluate_classification(for_training=False) returned.
C16_OnnxSameAsTrainable ==
    (fn = "evaluate_onnx_classification" /\ pc = "returned")
      => /\ caller_kept.kind = "tuple"
         /\ RatEq(result.value, caller_kept.value)
         /\ result.labels = caller_kept.labels
         /\ result.scores = caller_kept.scores

\* ------------------------------------------------ return shape: claim C17
\* C17: evaluate_classification, evaluate_regression and evaluate_hybrid,
\* run over batches, return: the scalar summary alone when for_training is
\* true (total_correct / count for classification, the mean loss for
\* regression and hybrid), the 5-tuple starting with it when for_training is
\* false.
C17_ReturnShape ==
    (fn \in {"evaluate_classification", "evaluate_regression", "evaluate_hybrid"}
       /\ fetched >= 1)
      => /\ pc # "raised"
         /\ pc = "returned" =>
              /\ result.kind = (IF for_training THEN "scalar" ELSE "tuple")
              /\ fn = "evaluate_classification"
                   => RatEq(result.value, Quot(total_correct, count))
              /\ fn # "evaluate_classification"
                   => RatEq(result.value, Quot(total_loss, count))

\* ------------------------------------------- running averages: claim C18
\* C18: at every batch boundary of a loop, the reported AvgAcc, AvgMSE and
\* AvgMAE are the cumulative correct count, squared-error sum and
\* absolute-error sum of the batches processed so far, each divided by the
\* cumulative example count of those batches.
C18_RunningAverages ==
    (pc \in {"loop", "epoch_end"} /\ postfix # NoPostfix)
      => /\ postfix.AvgAcc # NoQuot => RatEq(postfix.AvgAcc, Quot(total_correct, count))
         /\ postfix.AvgMSE # NoQuot => RatEq(postfix.AvgMSE, Quot(sum_sqr_err, count))
         /\ postfix.AvgMAE # NoQuot => RatEq(postfix.AvgMAE, Quot(sum_abs_err, count))

StrictlyIncreasing(q) == \A i \in 1..(Len(q) - 1) : q[i] < q[i + 1]

\* C19: over the training epochs that share one TensorboardHelper, the
\* steps of the per-batch scalars written to the sink are strictly increasing
\* across batches and across epochs, and after each epoch batch_train_count is
\* the total number of batches processed by all training epochs so far
C19_DashboardStep ==
    /\ StrictlyIncreasing(tb_log)
    /\ (has_tb /\ fn \in TrainFns /\ pc = "returned") => batch_train_count = trained

\* a second epoch has returned, and the sink holds steps of both epochs
C19_Witness ==
    /\ has_tb /\ fn \in TrainFns /\ pc = "returned" /\ epoch = 1
    /\ num_batches = 2 /\ trained = 4 /\ Len(tb_log) >= 3

CountOf(q, x) == Cardinality({i \in 1..Len(q) : q[i] = x})

\* C20: in a training epoch that processes n >= 1 batches with a scheduler,
\* scheduler.step is called exactly n times, each right after a batch's
\* optimizer step, when the per-step flag is set, and exactly once, after the
\* last batch and the epoch summary, when it is not; never both
C20_SchedulerStepping ==
    (pc = "returned" /\ fn \in TrainFns /\ scheduler # "none" /\ num_batches >= 1) =>
        /\ CountOf(call_log, "opt") = num_batches
        /\ IF scheduler = "per_step"
           THEN /\ CountOf(call_log, "sched") = num_batches
                /\ \A i \in 1..Len(call_log) :
                      call_log[i] = "opt" =>
                          (i < Len(call_log) /\ call_log[i + 1] = "sched")
                /\ call_log[Len(call_log)] = "summary"
           ELSE /\ CountOf(call_log, "sched") = 1
                /\ call_log[Len(call_log)] = "sched"
                /\ call_log[Len(call_log) - 1] = "summary"
                /\ \A i \in 1..num_batches : call_log[i] = "opt"

\* an epoch of two batches has returned with a per-step scheduler
C20_Witness ==
    /\ pc = "returned" /\ fn \in TrainFns /\ scheduler = "per_step"
    /\ num_batches = 2 /\ CountOf(call_log, "sched") = 2

\* an epoch of two batches has returned with a per-epoch scheduler
C20_WitnessPerEpoch ==
    /\ pc = "returned" /\ fn \in TrainFns /\ scheduler = "per_epoch"
    /\ num_batches = 2 /\ CountOf(call_log, "sched") = 1

\* the names of the calls of kinds made while batch i was processed, in order
CallsOf(i, kinds) ==
    LET q == SelectSeq(trace, LAMBDA e : e.i = i /\ e.ev \in kinds)
    IN  [j \in 1..Len(q) |-> q[j].ev]

UpdateCalls == {"scale", "backward", "scaler_step", "scaler_update", "opt_step"}

\* C21: in every training batch whose model and loss calls returned, exactly
\* one update path runs: with a gradient scaler the calls are scale(loss),
\* backward, scaler.step(optimizer), scaler.update() in that order and
\* optimizer.step is never called directly; without one they are
\* loss.backward() then optimizer.step() and no scaler method is called
C21_ScalerProtocol ==
    fn \in TrainFns =>
        \A i \in 1..fetched :
            i # fail_at =>
                CallsOf(i, UpdateCalls) =
                    IF has_scaler
                    THEN <<"scale", "backward", "scaler_step", "scaler_update">>
                    ELSE <<"backward", "opt_step">>

\* two training batches have gone through the gradient scaler
C21_Witness ==
    /\ fn \in TrainFns /\ has_scaler /\ fetched = 2 /\ fail_at = 0
    /\ CallsOf(2, UpdateCalls) = <<"scale", "backward", "scaler_step", "scaler_update">>

\* C22: in every loop a batch of zero examples makes the pass abort with a
\* division-by-zero error: the batch is not skipped and no summary is returned
C22_EmptyBatchFatal ==
    \A i \in 1..fetched :
        batch.list[i].n = 0 =>
            /\ pc = "raised" /\ err = "ZeroDivisionError"
            /\ fetched = i
            /\ summary = NoQuot /\ result = NoResult

\* the number of calls of kind ev made while batch i was processed
CallCount(i, ev) == Len(CallsOf(i, {ev}))

\* C23: when the model call or the loss call raises on batch k, the loop
\* processes no batch after k, does not call the model again on batch k,
\* emits no end-of-epoch summary and returns no value: the exception is not
\* caught
C23_NoRetryNoSwallow ==
    (fn \in ModelFns /\ fail_at > 0 /\ fetched >= fail_at) =>
        /\ pc = "raised" /\ err = "RuntimeError"
        /\ fetched = fail_at
        /\ \A j \in 1..Len(trace) : trace[j].i \in 1..fail_at
        /\ CallCount(fail_at, "forward") = 1
        /\ CallCount(fail_at, "accumulate") = 0
        /\ num_batches = fail_at - 1
        /\ summary = NoQuot /\ result = NoResult

\* the loss call raised on the second batch of a training epoch
C23_Witness ==
    /\ fn \in TrainFns /\ fail_at = 2 /\ fail_in = "loss" /\ fetched = 2
    /\ pc = "raised" /\ err = "RuntimeError"
    /\ CallsOf(2, {"zero_grad", "forward", "loss", "backward"}) =
           <<"zero_grad", "forward", "loss">>

\* every batch taken so far was degenerate: it added no classification
\* examples (its body ran without the accuracy update), or it is the batch,
\* with a rank-1 output, on which the pass stopped
AllDegenerate ==
    /\ \A j \in 1..Len(hist) : ~hist[j].ok
    /\ Len(hist) < fetched => Len(model_output) = 1

\* C24: in hybrid mode, when at least one batch was processed and every batch
\* was degenerate, the end-of-epoch summary is still emitted from the partial
\* aggregates: accuracy 0 and the losses of the processed batches
C24_DegenerateSummary ==
    (/\ fn \in {"train_hybrid", "evaluate_hybrid"}
     /\ fn = "train_hybrid" \/ has_tb
     /\ fetched >= 1 /\ AllDegenerate
     /\ pc \in {"returned", "raised"}) =>
        /\ total_correct = 0
        /\ summary # NoQuot
        /\ summary = IF fn = "train_hybrid" THEN Quot(total_loss, num_batches)
                     ELSE Quot(total_loss, count)

\* C25: when the truths of a batch hold no '<label>_mask' entry,
\* train_classification and evaluate_classification process the batch without
\* raising and keep every label position, flattened row-major: the example
\* count of the batch is the number of label elements; a pass none of whose
\* batches has a mask entry does not raise
C25_MissingMask ==
    /\ \A i \in 1..fetched :
           "mask" \notin DOMAIN batch.list[i] =>
               LET shape == batch.list[i].shape
               IN  /\ Len(hist) >= i
                   /\ hist[i].c = Prod(shape)
                   /\ fn = "evaluate_classification" =>
                          /\ labels[i].shape = <<Prod(shape)>>
                          /\ \A k \in 1..Prod(shape) :
                                 labels[i].data[k].coord = Unravel(k - 1, shape)
    /\ (\A i \in 1..Len(batch.list) : "mask" \notin DOMAIN batch.list[i])
           => pc # "raised"

\* number of calls of the metric library for one slice
MetricCalls(arg, k) ==
    Cardinality({j \in 1..Len(trace) :
                    trace[j].ev = "metric" /\ trace[j].arg = arg /\ trace[j].k = k})

\* C26: in an evaluation pass the metric library is not invoked while the
\* batch loop runs, and a pass over at least one batch whose model call does
\* not fail ends with exactly one invocation for the classification slice
\* (classification, hybrid) and one for each regression target (regression,
\* hybrid), all of them after the last batch event
C26_MetricsOncePerSlice ==
    fn \in EvalFns =>
        /\ pc \in {"loop", "epoch_end"} =>
               \A j \in 1..Len(trace) : trace[j].ev # "metric"
        /\ \A j, l \in 1..Len(trace) :
               (trace[j].ev = "metric" /\ j < l) => trace[l].i = AfterLoop
        /\ (pc \in {"returned", "raised"} /\ loader_len > 0 /\ fail_at = 0) =>
               /\ MetricCalls("cat", 0) =
                      (IF fn \in {"evaluate_classification", "evaluate_hybrid"}
                       THEN 1 ELSE 0)
               /\ \A k \in 1..MaxTargets :
                      MetricCalls("reg", k) =
                          (IF fn \in {"evaluate_regression", "evaluate_hybrid"}
                              /\ k <= num_targets
                           THEN 1 ELSE 0)

\* the phases of one training iteration; with a gradient scaler the
\* optimizer is stepped by grad_scaler.step(opt)
Phases ==
    {"zero_grad", "forward", "loss", "backward", "opt_step", "scaler_step",
     "sched", "accumulate", "report"}

PhaseName(ev) == IF ev = "scaler_step" THEN "opt_step" ELSE ev

\* the phases of the batch of index i, in the order of their occurrence
BatchPhases(i) ==
    LET sel == SelectSeq(trace, LAMBDA c : c.i = i /\ c.ev \in Phases)
    IN  [j \in 1..Len(sel) |-> PhaseName(sel[j].ev)]

AllPhases ==
    <<"zero_grad", "forward", "loss", "backward", "opt_step">>
    \o (IF sched_per_batch(scheduler) THEN <<"sched">> ELSE <<>>)
    \o <<"accumulate", "report">>

\* C27: in a training loop every batch after which the loop goes on has gone
\* through zero gradients, forward, loss, backward, optimizer step, per-step
\* scheduler advance (if any), accumulation and report, in this order, and
\* no event of a batch precedes an event of an earlier batch
C27_PhaseOrder ==
    fn \in TrainFns =>
        /\ \A i \in 1..Len(hist) : BatchPhases(i) = AllPhases
        /\ \A j, l \in 1..Len(trace) :
               (j < l /\ trace[l].i # AfterLoop) =>
                   (trace[j].i # AfterLoop /\ trace[j].i <= trace[l].i)

\* the calls that change the training state or write per-batch scalars
TrainingCalls ==
    {"zero_grad", "backward", "opt_step", "scale", "scaler_step", "scaler_update",
     "sched", "tb_write"}

\* C28: an evaluation pass (evaluate_* and evaluate_onnx_classification) makes
\* no call to zero_grad, backward, the optimizer, the gradient scaler or the
\* scheduler, writes no per-batch scalar to the dashboard sink and leaves the
\* sink's batch_train_count as it was
C28_EvaluationFrame ==
    fn \in EvalFns \cup {"evaluate_onnx_classification"} =>
        /\ \A j \in 1..Len(trace) : trace[j].ev \notin TrainingCalls
        /\ tb_log = <<>>
        /\ batch_train_count = 0

\* an evaluation pass with a loss function and a dashboard helper has
\* returned after two batches
C28_Witness ==
    /\ fn \in EvalFns /\ pc = "returned"
    /\ has_loss_func /\ has_tb
    /\ fetched = 2
    /\ \E j \in 1..Len(trace) : trace[j].ev = "loss" /\ trace[j].i = 2
    /\ \E j \in 1..Len(trace) : trace[j].ev = "tb_epoch"

\* number of calls of the callback with this i_batch and this mode
CallbackCalls(k, mode) ==
    Cardinality({j \in 1..Len(trace) :
                    trace[j].ev = "custom_fn" /\ trace[j].k = k /\ trace[j].arg = mode})

CallbackMode ==
    IF fn \in TrainFns THEN "train" ELSE IF for_training THEN "eval" ELSE "test"

\* C29: with a dashboard helper that has a callback, the callback has been
\* called exactly once for every batch after which the loop went on, with
\* i_batch the 1-based index of the batch, once more with i_batch = -1 when
\* the pass has returned and not before the loop has ended, and always with
\* the mode of the pass
C29_CallbackProtocol ==
    (has_tb /\ has_custom_fn) =>
        /\ \A j \in 1..Len(trace) :
               trace[j].ev = "custom_fn" =>
                   /\ trace[j].arg = CallbackMode
                   /\ trace[j].k = (IF trace[j].i = AfterLoop THEN -1 ELSE trace[j].i)
        /\ \A i \in 1..Len(hist) : CallbackCalls(i, CallbackMode) = 1
        /\ pc = "loop" => CallbackCalls(-1, CallbackMode) = 0
        /\ pc = "returned" => CallbackCalls(-1, CallbackMode) = 1

\* the element of row r (from 1) and column c (from 0) of a rank-2 tensor
At2(t, r, c) == t.data[(r - 1) * t.shape[2] + c + 1]

\* C30: the truth handed to the loss function in train_hybrid and
\* evaluate_hybrid has one row per example of the batch and 1 + number of
\* targets columns: column 0 is the primary label of the example, column j
\* the j-th declared target of the example
C30_TruthLayout ==
    result.kind = "loss_target" =>
        LET t == result.value
        IN  /\ t.shape = <<count, 1 + num_targets>>
            /\ \A r \in 1..count :
                   /\ At2(t, r, 0) =
                          [src |-> 0, coord |-> Unravel(r - 1, batch.label)]
                   /\ \A j \in 1..num_targets :
                          At2(t, r, j) =
                              [src |-> j, coord |-> Unravel(r - 1, batch.targets[j])]

\* a truth of two examples and two targets has been built from a label given
\* as a column and targets given one as a vector and one as a column
C30_Witness ==
    /\ result.kind = "loss_target"
    /\ num_targets = 2 /\ count = 2
    /\ batch.label = <<2, 1>>
    /\ batch.targets = <<(<<2>>), (<<2, 1>>)>>

RECURSIVE RowsOf(_)
\* the number of rows of a list of per-batch arrays
RowsOf(arrays) ==
    IF arrays = <<>> THEN 0 ELSE Head(Head(arrays).shape) + RowsOf(Tail(arrays))

\* C31: when evaluate_hybrid has left its batch loop, the rows accumulated in
\* scores_cat and in scores_reg, the accumulated label values and the
\* cumulative example count are the same number, whatever mix of well-formed
\* batches and of batches with a mismatching block the pass has seen
C31_LengthAlignment ==
    (fn = "evaluate_hybrid" /\ pc \in {"epoch_end", "returned"}) =>
        /\ RowsOf(scores) = count
        /\ RowsOf(scores_reg) = count
        /\ RowsOf(labels) = count
        /\ entry_count = count

\* the loop has ended after a well-formed batch and a batch whose blocks do
\* not have the length of the batch
C31_Witness ==
    /\ fn = "evaluate_hybrid" /\ pc = "epoch_end"
    /\ Len(hist) = 2
    /\ hist[1].ok /\ ~hist[2].ok
    /\ hist[1].c = 2 /\ hist[2].c = 1
    /\ model_output = <<2, num_classes + num_targets>>
    /\ count = 3

\* C32: evaluate_classification and evaluate_hybrid called with loss_func =
\* None, over at least one batch and with a model call that returns, take
\* every batch's loss as 0 (total_loss stays 0), do not raise, and the mean
\* loss they report at the end of the pass is 0
C32_NoLossFunction ==
    (fn \in {"evaluate_classification", "evaluate_hybrid"}
       /\ ~has_loss_func /\ fail_at = 0 /\ loader_len > 0) =>
        /\ total_loss = 0
        /\ pc # "raised"
        /\ (pc = "returned" /\ has_tb) => (summary[1] = 0 /\ summary[2] = count)
        /\ (pc = "returned" /\ fn = "evaluate_hybrid") =>
               (result.value[1] = 0 /\ result.value[2] = count)

\* C33: when the batch loop of evaluate_classification(for_training=False)
\* has ended with no mask observed and a flat count different from
\* entry_count, the cumulative example count is a multiple of entry_count, and
\* the pass does not end in the AssertionError of
\* `assert(count % entry_count == 0)`
C33_ReshapeAssertion ==
    (/\ fn = "evaluate_classification" /\ ~for_training
     /\ pc \in {"epoch_end", "returned", "raised"}
     /\ Len(labels_counts) = 0
     /\ entry_count > 0 /\ count # entry_count) =>
        /\ count % entry_count = 0
        /\ err # "AssertionError"

\* an iteration of the loop has run to the end of the loop body, where the
\* step budget is tested
RanToEnd(i) == i <= Len(hist) /\ (fn = "train_hybrid" => hist[i].ok)

\* C34: over a batch source that is not empty and with a model call that
\* returns, when the loop of a train_* or evaluate_* function has stopped, at
\* least one of its iterations has run to its end, whatever steps_per_epoch
\* is (0 included); in particular the loop never stops before its first batch
C34_BudgetAfterBatch ==
    (loader_len > 0 /\ fail_at = 0 /\ pc \in {"epoch_end", "returned", "raised"}) =>
        /\ fetched >= 1
        /\ \E i \in 1..fetched : RanToEnd(i)

====
